---------------------------- MODULE Spec2Model ----------------------------
(***************************************************************************)
(* subnetsmith: CIDR arithmetic (src/lib/subnet.ts), the segment builder   *)
(* and gap filler of the canvas (src/components/SubnetCanvas.tsx,          *)
(* src/components/SubnetEditModal.tsx) and the planning session            *)
(* (src/unnamed/part_003, src/app/page.tsx).                               *)
(*                                                                         *)
(* Numbers.  The program computes with JavaScript numbers: doubles, which  *)
(* hold every integer up to 2^53 exactly, and 32-bit integers inside the   *)
(* bit operators.  TLC's integers are 32-bit signed and cannot hold an     *)
(* IPv4 address with the top bit set, so a number is modelled as a pair    *)
(* <<hi, lo>> standing for hi * 2^16 + lo with 0 <= lo < 2^16 (hi may be   *)
(* negative).  The operators N* below are exact integer arithmetic on such *)
(* pairs; the JavaScript operators are defined on top of them.             *)
(*                                                                         *)
(* Text.  A decimal token ("192", "08", "7") is the sequence of its        *)
(* characters; a digit is the number 0..9, any other character is a number *)
(* above 9.  A CIDR text is [octets |-> <<tok, ...>>, prefix |-> tok]: the *)
(* dot-separated parts before the slash and the part after it.             *)
(***************************************************************************)
EXTENDS Integers, Sequences, FiniteSets, TLC

\* ------------------------------------------------------------------------
\* Exact integers as <<hi, lo>> pairs
\* ------------------------------------------------------------------------

Limb == 2^16

NNorm(h, l) == <<h + (l \div Limb), l % Limb>>

\* a native integer (|i| < 2^31) as a number
NInt(i) == NNorm(0, i)

NAdd(a, b) == NNorm(a[1] + b[1], a[2] + b[2])

NSub(a, b) == NNorm(a[1] - b[1], a[2] - b[2])

NLt(a, b) == a[1] < b[1] \/ (a[1] = b[1] /\ a[2] < b[2])

NLe(a, b) == a = b \/ NLt(a, b)

NGt(a, b) == NLt(b, a)

NGe(a, b) == NLe(b, a)

NMax(a, b) == IF NLt(a, b) THEN b ELSE a

\* 2^k, 0 <= k <= 40
NPow2(k) == IF k < 16 THEN <<0, 2^k>> ELSE <<2^(k - 16), 0>>

\* a mod 2^k (never negative)
NModPow2(a, k) ==
  IF k >= 16 THEN <<a[1] % (2^(k - 16)), a[2]>> ELSE <<0, a[2] % (2^k)>>

\* floor(a / 2^k)
NDivPow2(a, k) ==
  IF k >= 16
    THEN NInt(a[1] \div (2^(k - 16)))
    ELSE NNorm(a[1] \div (2^k), (a[1] % (2^k)) * (2^(16 - k)) + (a[2] \div (2^k)))

\* ceil(a / 2^k)
NCeilDivPow2(a, k) ==
  IF NModPow2(a, k) = <<0, 0>>
    THEN NDivPow2(a, k)
    ELSE NAdd(NDivPow2(a, k), NInt(1))

\* a * 2^k, for |a * 2^k| < 2^46
NMulPow2(a, k) ==
  IF k >= 16
    THEN NNorm((a[1] * Limb + a[2]) * (2^(k - 16)), 0)
    ELSE NNorm(a[1] * (2^k), a[2] * (2^k))

\* the native integer a number stands for, when it fits
NToInt(a) == a[1] * Limb + a[2]

\* ------------------------------------------------------------------------
\* JavaScript's 32-bit operators
\* ------------------------------------------------------------------------

\* const y = v; F(y): the value is computed once, before F is entered (TLC
\* evaluates a LET definition only where it is used; binding through a set
\* keeps its evaluation as shallow as the program's)
Let(v, F(_)) == CHOOSE r \in {F(y) : y \in {v}} : TRUE


\* x >>> 0
ToUint32(x) == NModPow2(x, 32)

\* the signed 32-bit reading every bit operator gives its result
ToInt32(x) ==
  LET u == ToUint32(x)
  IN  IF NGe(u, NPow2(31)) THEN NSub(u, NPow2(32)) ELSE u

\* x << n: the count is taken mod 32, the bits shifted out are lost
Shl(x, n) ==
  LET c == n % 32
  IN  ToInt32(NMulPow2(NModPow2(ToUint32(x), 32 - c), c))

\* x >>> n
UShr(x, n) == NDivPow2(ToUint32(x), n % 32)

\* bit i of a native integer a >= 0
Bit(a, i) == (a \div (2^i)) % 2

\* the bit operators on 4-bit digits
AndNibble ==
  [a \in 0..15, b \in 0..15 |->
     Bit(a, 0) * Bit(b, 0) + 2 * (Bit(a, 1) * Bit(b, 1))
       + 4 * (Bit(a, 2) * Bit(b, 2)) + 8 * (Bit(a, 3) * Bit(b, 3))]

\* a | b = a + b - (a & b)
OrNibble == [a \in 0..15, b \in 0..15 |-> a + b - AndNibble[a, b]]

\* hexadecimal digit i of a native integer a >= 0
Nibble(a, i) == (a \div (16^i)) % 16

\* a 16-bit word from an operator on its four hexadecimal digits
Word16(f(_)) == (f(0) + 16 * f(1)) + (256 * f(2) + 4096 * f(3))

AndBits(a, b) == LET f(i) == AndNibble[Nibble(a, i), Nibble(b, i)] IN Word16(f)

OrBits(a, b) == LET f(i) == OrNibble[Nibble(a, i), Nibble(b, i)] IN Word16(f)

\* x & y
BitAnd(x, y) ==
  Let(ToUint32(x), LAMBDA a :
  Let(ToUint32(y), LAMBDA b :
    ToInt32(<<AndBits(a[1], b[1]), AndBits(a[2], b[2])>>)))

\* x | y
BitOr(x, y) ==
  Let(ToUint32(x), LAMBDA a :
  Let(ToUint32(y), LAMBDA b :
    ToInt32(<<OrBits(a[1], b[1]), OrBits(a[2], b[2])>>)))

\* ~x
BitNot(x) == ToInt32(NSub(NInt(-1), ToInt32(x)))

\* ------------------------------------------------------------------------
\* Text
\* ------------------------------------------------------------------------

IsDigit(c) == c \in 0..9

\* \d{lo,hi}
IsDigits(tok, lo, hi) ==
  /\ Len(tok) >= lo
  /\ Len(tok) <= hi
  /\ \A i \in 1..Len(tok) : IsDigit(tok[i])

\* parseInt(tok, 10) and Number(tok) of an all-digit token
RECURSIVE parseInt(_)
parseInt(tok) ==
  IF tok = <<>> THEN 0
  ELSE 10 * parseInt(SubSeq(tok, 1, Len(tok) - 1)) + tok[Len(tok)]

\* String(n) of a native integer n >= 0
RECURSIVE toString(_)
toString(n) == IF n < 10 THEN <<n>> ELSE Append(toString(n \div 10), n % 10)

Null == [null |-> TRUE]

\* "a.b.c.d/p" with every part in canonical decimal
Cidr(a, b, c, d, p) ==
  [octets |-> <<toString(a), toString(b), toString(c), toString(d)>>,
   prefix |-> toString(p)]

\* ------------------------------------------------------------------------
\* src/lib/subnet.ts
\* ------------------------------------------------------------------------

\* the digits a token starts with: parseInt(octet, 10) reads these and stops at
\* the first other character
leadingDigits(tok) ==
  SubSeq(tok, 1, CHOOSE k \in 0..Len(tok) :
                   /\ \A i \in 1..k : IsDigit(tok[i])
                   /\ k < Len(tok) => ~IsDigit(tok[k + 1]))

\* (acc << 8) | parseInt(octet, 10): a token without a leading digit parses to
\* NaN, which | reads as 0
RECURSIVE ipReduce(_, _)
ipReduce(acc, parts) ==
  IF parts = <<>> THEN acc
  ELSE Let(BitOr(Shl(acc, 8), NInt(parseInt(leadingDigits(Head(parts))))), LAMBDA next :
         ipReduce(next, Tail(parts)))

\* ipToInt without the closing >>> 0: the signed reading of the last |
ipToInt_signed(ip) == ipReduce(NInt(0), ip)

\* ip.split(".").reduce((acc, octet) => (acc << 8) | parseInt(octet, 10), 0) >>> 0
ipToInt(ip) == ToUint32(ipReduce(NInt(0), ip))

\* intToIp without the & 0xff masks
intToIp_noMask(n) ==
  << toString(NToInt(UShr(n, 24))),
     toString(NToInt(UShr(n, 16))),
     toString(NToInt(UShr(n, 8))),
     toString(NToInt(BitAnd(n, NInt(255)))) >>

\* [(n >>> 24) & 0xff, (n >>> 16) & 0xff, (n >>> 8) & 0xff, n & 0xff].join(".")
intToIp(n) ==
  << toString(NToInt(BitAnd(UShr(n, 24), NInt(255)))),
     toString(NToInt(BitAnd(UShr(n, 16), NInt(255)))),
     toString(NToInt(BitAnd(UShr(n, 8), NInt(255)))),
     toString(NToInt(BitAnd(n, NInt(255)))) >>

\* text.trim(): a text typed with blanks around it carries the field space
trim(text) == [octets |-> text.octets, prefix |-> text.prefix]

\* /^(\d{1,3}(?:\.\d{1,3}){3})\/(\d{1,2})$/
cidrRegex(text) ==
  /\ DOMAIN text = {"octets", "prefix"}
  /\ Len(text.octets) = 4
  /\ \A i \in 1..4 : IsDigits(text.octets[i], 1, 3)
  /\ IsDigits(text.prefix, 1, 2)

\* parseCidr without the check of the octets' values
parseCidr_noOctetRange(text) ==
  IF ~cidrRegex(text) THEN Null
  ELSE IF parseInt(text.prefix) < 0 \/ parseInt(text.prefix) > 32 THEN Null
  ELSE [ip |-> text.octets, prefix |-> parseInt(text.prefix)]

\* parseCidr without the check of the prefix's value
parseCidr_noPrefixRange(text) ==
  IF ~cidrRegex(text) THEN Null
  ELSE IF \E i \in 1..4 : parseInt(text.octets[i]) < 0 \/ parseInt(text.octets[i]) > 255
    THEN Null
  ELSE [ip |-> text.octets, prefix |-> parseInt(text.prefix)]

parseCidr(text) ==
  IF ~cidrRegex(text) THEN Null
  ELSE IF parseInt(text.prefix) < 0 \/ parseInt(text.prefix) > 32 THEN Null
  ELSE IF \E i \in 1..4 : parseInt(text.octets[i]) < 0 \/ parseInt(text.octets[i]) > 255
    THEN Null
  ELSE [ip |-> text.octets, prefix |-> parseInt(text.prefix)]

\* maskOf without the prefix === 0 case: 0xffffffff << 32 shifts by 0
maskOf_noZeroCase(prefix) == ToUint32(Shl(NSub(NPow2(32), NInt(1)), 32 - prefix))

\* prefix === 0 ? 0 : (0xffffffff << (32 - prefix)) >>> 0
maskOf(prefix) ==
  IF prefix = 0 THEN NInt(0)
  ELSE ToUint32(Shl(NSub(NPow2(32), NInt(1)), 32 - prefix))

\* `${intToIp(networkInt)}/${prefix}`
cidrText(networkInt, prefix) ==
  [octets |-> intToIp(networkInt), prefix |-> toString(prefix)]

\* (ipToInt(parsed.ip) & mask) >>> 0
networkOf(ip, mask) == ToUint32(BitAnd(ipToInt(ip), mask))

normalizeCidr(text) ==
  Let(parseCidr(text), LAMBDA parsed :
    IF parsed = Null THEN Null
    ELSE
      Let(maskOf(parsed.prefix), LAMBDA mask :
      Let(networkOf(parsed.ip, mask), LAMBDA networkInt :
        cidrText(networkInt, parsed.prefix))))

\* broadcastOf without either >>> 0: the signed reading of ~ and |
broadcastOf_signed(networkInt, mask) == BitOr(networkInt, BitNot(mask))

\* (networkInt | (~mask >>> 0)) >>> 0
broadcastOf(networkInt, mask) == ToUint32(BitOr(networkInt, ToUint32(BitNot(mask))))

\* usableHostsOf with the /31 case forgotten
usableHostsOf_only32(prefix, totalHosts) ==
  IF prefix >= 32 THEN totalHosts ELSE NMax(NInt(0), NSub(totalHosts, NInt(2)))

\* prefix >= 31 ? totalHosts : Math.max(0, totalHosts - 2)
usableHostsOf(prefix, totalHosts) ==
  IF prefix >= 31 THEN totalHosts ELSE NMax(NInt(0), NSub(totalHosts, NInt(2)))

\* prefix >= 31 ? intToIp(networkInt) : intToIp(networkInt + 1)
firstHostOf(prefix, networkInt) ==
  IF prefix >= 31 THEN intToIp(networkInt) ELSE intToIp(NAdd(networkInt, NInt(1)))

\* prefix >= 31 ? intToIp(broadcastInt) : intToIp(broadcastInt - 1)
lastHostOf(prefix, broadcastInt) ==
  IF prefix >= 31 THEN intToIp(broadcastInt) ELSE intToIp(NSub(broadcastInt, NInt(1)))

getSubnetInfo(text) ==
  Let(parseCidr(text), LAMBDA parsed :
    IF parsed = Null THEN Null
    ELSE
      Let(maskOf(parsed.prefix), LAMBDA mask :
      Let(networkOf(parsed.ip, mask), LAMBDA networkInt :
      Let(broadcastOf(networkInt, mask), LAMBDA broadcastInt :
      Let(NPow2(32 - parsed.prefix), LAMBDA totalHosts :
        [cidr |-> cidrText(networkInt, parsed.prefix),
         networkAddress |-> intToIp(networkInt),
         broadcastAddress |-> intToIp(broadcastInt),
         firstHost |-> firstHostOf(parsed.prefix, networkInt),
         lastHost |-> lastHostOf(parsed.prefix, broadcastInt),
         totalHosts |-> totalHosts,
         usableHosts |-> usableHostsOf(parsed.prefix, totalHosts),
         prefix |-> parsed.prefix,
         networkInt |-> networkInt,
         broadcastInt |-> broadcastInt])))))

\* for (let p = parentPrefix + 1; p <= 32; p++) result.push(p)
getValidChildPrefixes(parentPrefix) ==
  [i \in 1..(32 - parentPrefix) |-> parentPrefix + i]

\* splitCidr stepping by the parent's block size in place of the child's
splitCidr_parentStep(parentCidr, childPrefix) ==
  Let(getSubnetInfo(parentCidr), LAMBDA info :
    IF info = Null THEN <<>>
    ELSE IF childPrefix <= info.prefix \/ childPrefix > 32 THEN <<>>
    ELSE
      LET count == 2^(childPrefix - info.prefix)
          offset(i) == NMulPow2(NInt(i), 32 - info.prefix)
          slot(i) == cidrText(ToUint32(NAdd(info.networkInt, offset(i))), childPrefix)
      IN  [k \in 1..count |-> slot(k - 1)])

\* splitCidr with childPrefix < info.prefix as its guard
splitCidr_allowsEqual(parentCidr, childPrefix) ==
  Let(getSubnetInfo(parentCidr), LAMBDA info :
    IF info = Null THEN <<>>
    ELSE IF childPrefix < info.prefix \/ childPrefix > 32 THEN <<>>
    ELSE
      LET count == 2^(childPrefix - info.prefix)
          offset(i) == NMulPow2(NInt(i), 32 - childPrefix)
          slot(i) == cidrText(ToUint32(NAdd(info.networkInt, offset(i))), childPrefix)
      IN  [k \in 1..count |-> slot(k - 1)])

splitCidr(parentCidr, childPrefix) ==
  Let(getSubnetInfo(parentCidr), LAMBDA info :
    IF info = Null THEN <<>>
    ELSE IF childPrefix <= info.prefix \/ childPrefix > 32 THEN <<>>
    ELSE
      LET count == 2^(childPrefix - info.prefix)
          \* i * blockSize, blockSize = Math.pow(2, 32 - childPrefix)
          offset(i) == NMulPow2(NInt(i), 32 - childPrefix)
          slot(i) == cidrText(ToUint32(NAdd(info.networkInt, offset(i))), childPrefix)
      IN  [k \in 1..count |-> slot(k - 1)])

\* cidrContains comparing the network addresses only
cidrContains_networkOnly(parentCidr, childCidr) ==
  Let(getSubnetInfo(parentCidr), LAMBDA parent :
  Let(getSubnetInfo(childCidr), LAMBDA child :
    IF parent = Null \/ child = Null THEN FALSE
    ELSE NGe(child.networkInt, parent.networkInt)))

\* cidrContains with > for the network addresses
cidrContains_strictNetwork(parentCidr, childCidr) ==
  Let(getSubnetInfo(parentCidr), LAMBDA parent :
  Let(getSubnetInfo(childCidr), LAMBDA child :
    IF parent = Null \/ child = Null THEN FALSE
    ELSE /\ NGt(child.networkInt, parent.networkInt)
         /\ NLe(child.broadcastInt, parent.broadcastInt)))

cidrContains(parentCidr, childCidr) ==
  Let(getSubnetInfo(parentCidr), LAMBDA parent :
  Let(getSubnetInfo(childCidr), LAMBDA child :
    IF parent = Null \/ child = Null THEN FALSE
    ELSE /\ NGe(child.networkInt, parent.networkInt)
         /\ NLe(child.broadcastInt, parent.broadcastInt)))

\* cidrsOverlap with the first comparison only
cidrsOverlap_oneSided(a, b) ==
  Let(getSubnetInfo(a), LAMBDA ai :
  Let(getSubnetInfo(b), LAMBDA bi :
    IF ai = Null \/ bi = Null THEN FALSE
    ELSE NLe(ai.networkInt, bi.broadcastInt)))

cidrsOverlap(a, b) ==
  Let(getSubnetInfo(a), LAMBDA ai :
  Let(getSubnetInfo(b), LAMBDA bi :
    IF ai = Null \/ bi = Null THEN FALSE
    ELSE /\ NLe(ai.networkInt, bi.broadcastInt)
         /\ NLe(bi.networkInt, ai.broadcastInt)))


\* ------------------------------------------------------------------------
\* State
\* ------------------------------------------------------------------------

VARIABLES
  fn,           \* the function or handler that ran last ("input" before any)
  args,         \* its arguments
  ret,          \* what it returned
  rootCidr,     \* config.rootCidr of the session
  subnets,      \* config.subnets of the session
  breadcrumbs,  \* part_003: the breadcrumb stack
  page,         \* the page component that is mounted ("none": library calls only)
  hydrated,     \* the page's hydrated flag
  cidrInput,    \* part_002: the text in the root CIDR field
  cidrError,    \* part_002: cidrError; part_003: error of CidrInput
  activeCidr,   \* part_002: the block clicked last, or null
  selectedChildPrefix,  \* part_002: the prefix picked in the size picker, or null
  selectedBlock,  \* page.tsx: the /16 block selected, or null
  stored        \* the item of the page in localStorage, or null

vars ==
  <<fn, args, ret, rootCidr, subnets, breadcrumbs, page, hydrated, cidrInput,
    cidrError, activeCidr, selectedChildPrefix, selectedBlock, stored>>

session ==
  <<rootCidr, subnets, breadcrumbs, page, hydrated, cidrInput, cidrError, activeCidr,
    selectedChildPrefix, selectedBlock, stored>>

\* ""
EmptyText == [octets |-> <<>>, prefix |-> <<>>]

NoSession ==
  /\ rootCidr = EmptyText
  /\ subnets = <<>>
  /\ breadcrumbs = <<>>
  /\ page = "none"
  /\ hydrated = FALSE
  /\ cidrInput = EmptyText
  /\ cidrError = Null
  /\ activeCidr = Null
  /\ selectedChildPrefix = Null
  /\ selectedBlock = Null
  /\ stored = Null

\* ------------------------------------------------------------------------
\* The CIDR library applied to single texts
\* ------------------------------------------------------------------------

\* the largest childPrefix - parent.prefix a split is tried with
MaxSplitBits == 3

Addresses ==
  { <<0, 0, 0, 0>>, <<10, 0, 0, 0>>, <<10, 0, 1, 5>>, <<100, 64, 0, 0>>,
    <<127, 255, 255, 255>>, <<128, 0, 0, 0>>, <<192, 168, 0, 64>>,
    <<255, 255, 255, 255>> }

ValidTexts == { Cidr(a[1], a[2], a[3], a[4], p) : a \in Addresses, p \in 0..32 }

\* a letter
Letter == 10

OddTexts ==
  { \* accepted: leading zeros
    [octets |-> <<<<0, 1, 0>>, <<0, 0>>, <<1>>, <<5>>>>, prefix |-> <<0, 8>>],
    \* rejected
    Cidr(256, 0, 0, 0, 8), Cidr(10, 0, 0, 999, 24), Cidr(10, 0, 0, 0, 33),
    Cidr(10, 0, 0, 0, 99),
    [octets |-> <<<<1, 0>>, <<0>>, <<0>>>>, prefix |-> <<8>>],
    [octets |-> <<<<1, 0>>, <<0>>, <<0>>, <<0>>, <<0>>>>, prefix |-> <<8>>],
    [octets |-> <<<<1, 0>>, <<0>>, <<0>>, <<0>>>>, prefix |-> <<>>],
    [octets |-> <<<<1, 0>>, <<>>, <<0>>, <<0>>>>, prefix |-> <<8>>],
    [octets |-> <<<<1, 0, 0, 0>>, <<0>>, <<0>>, <<0>>>>, prefix |-> <<8>>],
    [octets |-> <<<<1, 0>>, <<0>>, <<0>>, <<0>>>>, prefix |-> <<1, 0, 0>>],
    [octets |-> <<<<0, 0, 1, 0>>, <<0>>, <<0>>, <<0>>>>, prefix |-> <<8>>],
    [octets |-> <<<<1, 0>>, <<0>>, <<0>>, <<0>>>>, prefix |-> <<0, 2, 4>>],
    [octets |-> <<<<1, 0>>, <<0>>, <<Letter, 1>>, <<0>>>>, prefix |-> <<8>>],
    [octets |-> <<<<Letter>>, <<0>>, <<0>>, <<0>>>>, prefix |-> <<8>>],
    [octets |-> <<<<1, 0>>, <<0>>, <<0>>, <<0>>>>, prefix |-> <<Letter>>],
    EmptyText }

InfoTexts == ValidTexts \cup OddTexts

InfoInit ==
  /\ fn = "input"
  /\ args \in [cidr : InfoTexts]
  /\ ret = Null
  /\ NoSession

CallNormalizeCidr ==
  /\ fn = "input"
  /\ fn' = "normalizeCidr"
  /\ ret' = normalizeCidr(args.cidr)
  /\ UNCHANGED <<args, session>>

CallGetSubnetInfo ==
  /\ fn = "input"
  /\ fn' = "getSubnetInfo"
  /\ ret' = getSubnetInfo(args.cidr)
  /\ UNCHANGED <<args, session>>

\* the child prefixes a split of a /p parent is tried with
SplitPrefixes(p) == { c \in (p - 1)..(p + MaxSplitBits) : c <= 32 } \cup {-1, 0, 33, 34}

CallSplitCidr ==
  /\ fn = "input"
  /\ \E c \in SplitPrefixes(IF parseCidr(args.cidr) = Null THEN 24
                            ELSE parseCidr(args.cidr).prefix) :
       /\ fn' = "splitCidr"
       /\ args' = [cidr |-> args.cidr, childPrefix |-> c]
       /\ ret' = splitCidr(args.cidr, c)
  /\ UNCHANGED session

CallGetValidChildPrefixes ==
  /\ fn = "input"
  /\ parseCidr(args.cidr) # Null
  /\ fn' = "getValidChildPrefixes"
  /\ ret' = getValidChildPrefixes(parseCidr(args.cidr).prefix)
  /\ UNCHANGED <<args, session>>

InfoNext ==
  \/ CallNormalizeCidr
  \/ CallGetSubnetInfo
  \/ CallSplitCidr
  \/ CallGetValidChildPrefixes

SpecInfo == InfoInit /\ [][InfoNext]_vars

\* ------------------------------------------------------------------------
\* The address codec: ipToInt, intToIp and the address part of parseCidr
\* ------------------------------------------------------------------------

AddrOctets == {0, 1, 10, 127, 128, 255}

\* the 32-bit addresses a.b.c.d
AddrInts ==
  { <<a * 256 + b, c * 256 + d>> : a \in AddrOctets, b \in AddrOctets,
                                   c \in AddrOctets, d \in AddrOctets }

\* "a.b.c.d" in canonical decimal
CanonicalIps ==
  { <<toString(a), toString(b), toString(c), toString(d)>> :
      a \in AddrOctets, b \in AddrOctets, c \in AddrOctets, d \in AddrOctets }

OddIps ==
  { \* octets in 0..255 written with leading zeros
    <<<<0, 1, 0>>, <<0>>, <<0>>, <<1>>>>,
    <<<<0, 0>>, <<0, 0>>, <<0, 0>>, <<0, 0>>>>,
    <<<<1, 9, 2>>, <<1, 6, 8>>, <<0, 0, 1>>, <<0, 7>>>>,
    \* wrong number of parts
    <<>>,
    <<<<1>>, <<2>>, <<3>>>>,
    <<<<1>>, <<2>>, <<3>>, <<4>>, <<5>>>>,
    <<<<1, 0>>>>,
    \* an empty part
    <<<<1>>, <<>>, <<3>>, <<4>>>>,
    \* not digits
    <<<<Letter>>, <<2>>, <<3>>, <<4>>>>,
    <<<<1>>, <<2>>, <<3, Letter>>, <<4>>>>,
    <<<<1>>, <<2>>, <<3>>, <<Letter, 4>>>>,
    \* an octet above 255
    <<<<2, 5, 6>>, <<0>>, <<0>>, <<0>>>>,
    <<<<1>>, <<2>>, <<3>>, <<9, 9, 9>>>>,
    <<<<1>>, <<3, 0, 0>>, <<3>>, <<4>>>>,
    \* more than three digits
    <<<<0, 0, 1, 0>>, <<0>>, <<0>>, <<0>>>>,
    <<<<1>>, <<2>>, <<3>>, <<1, 0, 0, 0>>>> }

AddrTexts == CanonicalIps \cup OddIps

\* the prefix texts an address text is parsed with
AddrPrefixes == { toString(0), toString(24), toString(32) }

AddrInit ==
  /\ fn = "input"
  /\ args \in [n : AddrInts] \cup [ip : AddrTexts]
  /\ ret = Null
  /\ NoSession

CallIntToIp ==
  /\ fn = "input"
  /\ "n" \in DOMAIN args
  /\ fn' = "intToIp"
  /\ ret' = intToIp(args.n)
  /\ UNCHANGED <<args, session>>

CallIpToInt ==
  /\ fn = "input"
  /\ "ip" \in DOMAIN args
  /\ fn' = "ipToInt"
  /\ ret' = ipToInt(args.ip)
  /\ UNCHANGED <<args, session>>

\* ipToInt(intToIp(n))
CallIpToIntOfIntToIp ==
  /\ fn = "intToIp"
  /\ fn' = "ipToInt(intToIp)"
  /\ args' = [n |-> args.n, ip |-> ret]
  /\ ret' = ipToInt(ret)
  /\ UNCHANGED session

\* intToIp(ipToInt(ip))
CallIntToIpOfIpToInt ==
  /\ fn = "ipToInt"
  /\ fn' = "intToIp(ipToInt)"
  /\ args' = [ip |-> args.ip, n |-> ret]
  /\ ret' = intToIp(ret)
  /\ UNCHANGED session

\* parseCidr(`${ip}/${prefix}`)
CallParseCidr ==
  /\ fn = "input"
  /\ "ip" \in DOMAIN args
  /\ \E p \in AddrPrefixes :
       /\ fn' = "parseCidr"
       /\ args' = [ip |-> args.ip, prefix |-> p]
       /\ ret' = parseCidr([octets |-> args.ip, prefix |-> p])
  /\ UNCHANGED session

AddrNext ==
  \/ CallIntToIp
  \/ CallIpToInt
  \/ CallIpToIntOfIntToIp
  \/ CallIntToIpOfIpToInt
  \/ CallParseCidr

SpecAddr == AddrInit /\ [][AddrNext]_vars

\* ------------------------------------------------------------------------
\* cidrContains and cidrsOverlap applied to two texts
\* ------------------------------------------------------------------------

PairTexts ==
  { Cidr(0, 0, 0, 0, 0), Cidr(128, 0, 0, 0, 1), Cidr(10, 0, 0, 0, 8),
    Cidr(10, 0, 0, 0, 16), Cidr(10, 1, 0, 0, 16), Cidr(10, 0, 0, 0, 17),
    Cidr(10, 0, 128, 0, 17), Cidr(10, 0, 4, 0, 23), Cidr(10, 0, 6, 0, 23),
    Cidr(10, 0, 5, 0, 24), Cidr(10, 0, 5, 77, 24), Cidr(10, 0, 200, 0, 24),
    Cidr(10, 0, 5, 255, 32), Cidr(10, 0, 6, 0, 32), Cidr(192, 168, 0, 0, 24),
    Cidr(255, 255, 255, 254, 31), Cidr(255, 255, 255, 255, 32),
    Cidr(256, 0, 0, 0, 8), Cidr(10, 0, 0, 0, 33), EmptyText }

PairInit ==
  /\ fn = "input"
  /\ args \in [a : PairTexts, b : PairTexts]
  /\ ret = Null
  /\ NoSession

\* cidrContains(a, b): a is the parent, b the child
CallCidrContains ==
  /\ fn = "input"
  /\ fn' = "cidrContains"
  /\ ret' = cidrContains(args.a, args.b)
  /\ UNCHANGED <<args, session>>

CallCidrsOverlap ==
  /\ fn = "input"
  /\ fn' = "cidrsOverlap"
  /\ ret' = cidrsOverlap(args.a, args.b)
  /\ UNCHANGED <<args, session>>

\* cidrsOverlap(a, b), cidrContains(a, b) and cidrContains(b, a) on the same two texts
CallOverlapAndContains ==
  /\ fn = "input"
  /\ fn' = "cidrsOverlap, cidrContains"
  /\ ret' = [overlap |-> cidrsOverlap(args.a, args.b),
             aContainsB |-> cidrContains(args.a, args.b),
             bContainsA |-> cidrContains(args.b, args.a)]
  /\ UNCHANGED <<args, session>>

PairNext ==
  \/ CallCidrContains
  \/ CallCidrsOverlap
  \/ CallOverlapAndContains

SpecPair == PairInit /\ [][PairNext]_vars


Range(seq) == { seq[i] : i \in 1..Len(seq) }

\* ------------------------------------------------------------------------
\* Gap suggestions: SubnetCanvas.tsx (GapExpander) and SubnetEditModal.tsx (AreaMap)
\* ------------------------------------------------------------------------

\* the number an address a.b.c.d stands for
ip(a, b, c, d) == ipToInt(Cidr(a, b, c, d, 0).octets)

\* one pass of the body of
\*   for (let p = from; p <= 30; p++) {
\*     if (Math.pow(2, 32 - p) <= gapSize) result.push(p);
\*     if (result.length >= cap) break;
\*   }
\* on the loop state st = [result, done]; done is set by the break
prefixStep(p, st, gapSize, cap) ==
  IF st.done THEN st
  ELSE LET pushed == IF NLe(NPow2(32 - p), gapSize) THEN Append(st.result, p)
                     ELSE st.result
       IN  [result |-> pushed, done |-> Len(pushed) >= cap]

\* the passes for p = lo .. hi in order, from the loop state st (the range is
\* halved so that the evaluation stays shallow)
RECURSIVE prefixLoop(_, _, _, _, _)
prefixLoop(lo, hi, st, gapSize, cap) ==
  IF lo > hi THEN st
  ELSE IF lo = hi THEN prefixStep(lo, st, gapSize, cap)
  ELSE Let(prefixLoop(lo, (lo + hi) \div 2, st, gapSize, cap), LAMBDA half :
         prefixLoop((lo + hi) \div 2 + 1, hi, half, gapSize, cap))

\* suggestedPrefixes with the loop started at parentPrefix itself
suggestedPrefixes_fromParent(gapSize, parentPrefix) ==
  prefixLoop(parentPrefix, 30, [result |-> <<>>, done |-> FALSE], gapSize, 8).result

\* suggestedPrefixes with the loop ended at p = 29
suggestedPrefixes_upTo29(gapSize, parentPrefix) ==
  prefixLoop(parentPrefix + 1, 29, [result |-> <<>>, done |-> FALSE], gapSize, 8).result

\* SubnetCanvas.tsx suggestedPrefixes
suggestedPrefixes(gapSize, parentPrefix) ==
  prefixLoop(parentPrefix + 1, 30, [result |-> <<>>, done |-> FALSE], gapSize, 8).result

\* SubnetEditModal.tsx suggestSizes
suggestSizes(gapSize) ==
  prefixLoop(16, 30, [result |-> <<>>, done |-> FALSE], gapSize, 6).result

\* firstAlignedCidr with Math.floor in place of Math.ceil
firstAlignedCidr_floor(gapStart, gapEnd, prefix) ==
  Let(NMulPow2(NDivPow2(gapStart, 32 - prefix), 32 - prefix), LAMBDA aligned :
    IF NGt(NSub(NAdd(aligned, NPow2(32 - prefix)), NInt(1)), gapEnd) THEN Null
    ELSE cidrText(ToUint32(aligned), prefix))

\* firstAlignedCidr with >= in the fit test
firstAlignedCidr_strictFit(gapStart, gapEnd, prefix) ==
  Let(NMulPow2(NCeilDivPow2(gapStart, 32 - prefix), 32 - prefix), LAMBDA aligned :
    IF NGe(NSub(NAdd(aligned, NPow2(32 - prefix)), NInt(1)), gapEnd) THEN Null
    ELSE cidrText(ToUint32(aligned), prefix))

\* SubnetCanvas.tsx firstAlignedCidr
firstAlignedCidr(gapStart, gapEnd, prefix) ==
  \* aligned = Math.ceil(gapStart / blockSize) * blockSize
  Let(NMulPow2(NCeilDivPow2(gapStart, 32 - prefix), 32 - prefix), LAMBDA aligned :
    IF NGt(NSub(NAdd(aligned, NPow2(32 - prefix)), NInt(1)), gapEnd) THEN Null
    ELSE cidrText(ToUint32(aligned), prefix))

\* SubnetEditModal.tsx AreaMap.firstAlignedCidr: gapStart is relative to the root
firstAlignedCidrAreaMap(rootInfo, gapStart, gapSize, prefix) ==
  LET base == rootInfo.networkInt
      absStart == NAdd(base, gapStart)
  IN  Let(NMulPow2(NCeilDivPow2(absStart, 32 - prefix), 32 - prefix), LAMBDA aligned :
        IF NGt(NSub(NAdd(aligned, NPow2(32 - prefix)), NInt(1)),
               NSub(NAdd(NAdd(base, gapStart), gapSize), NInt(1)))
          THEN Null
          ELSE cidrText(ToUint32(aligned), prefix))

\* ends of the gaps the helpers are called with
GapAddresses ==
  { ip(0, 0, 0, 0), ip(0, 0, 0, 1), ip(0, 0, 0, 3), ip(10, 0, 0, 0),
    ip(127, 255, 255, 255), ip(128, 0, 0, 0), ip(192, 168, 0, 0),
    ip(192, 168, 0, 63), ip(192, 168, 0, 64), ip(192, 168, 0, 65),
    ip(192, 168, 0, 95), ip(192, 168, 0, 96), ip(192, 168, 0, 127),
    ip(192, 168, 0, 128), ip(192, 168, 0, 191), ip(192, 168, 0, 192),
    ip(192, 168, 0, 255), ip(192, 168, 1, 0), ip(255, 255, 255, 255) }

\* the scopes an AreaMap shows the gaps of
GapRoots ==
  { Cidr(0, 0, 0, 0, 0), Cidr(128, 0, 0, 0, 1), Cidr(192, 168, 0, 0, 23),
    Cidr(192, 168, 0, 0, 24) }

\* rootInfo of each AreaMap scope
GapRootInfo == [root \in GapRoots |-> getSubnetInfo(root)]

GapInit ==
  /\ fn = "input"
  /\ args \in { g \in [gapStart : GapAddresses, gapEnd : GapAddresses] :
                  NLe(g.gapStart, g.gapEnd) }
  /\ ret = Null
  /\ NoSession

\* seg.size of a free segment
gapSizeOf(g) == NAdd(NSub(g.gapEnd, g.gapStart), NInt(1))

CallFirstAlignedCidr ==
  /\ fn = "input"
  /\ \E p \in 0..32 :
       /\ fn' = "firstAlignedCidr"
       /\ args' = [gapStart |-> args.gapStart, gapEnd |-> args.gapEnd, prefix |-> p]
       /\ ret' = firstAlignedCidr(args.gapStart, args.gapEnd, p)
  /\ UNCHANGED session

CallFirstAlignedCidrAreaMap ==
  /\ fn = "input"
  /\ \E p \in 0..32, root \in GapRoots :
       LET rootInfo == GapRootInfo[root]
           gapStart == NSub(args.gapStart, rootInfo.networkInt)
       IN  /\ NLe(rootInfo.networkInt, args.gapStart)
           /\ NLe(args.gapEnd, rootInfo.broadcastInt)
           /\ fn' = "AreaMap.firstAlignedCidr"
           /\ args' = [rootCidr |-> root, gapStart |-> gapStart,
                       gapSize |-> gapSizeOf(args), prefix |-> p]
           /\ ret' = firstAlignedCidrAreaMap(rootInfo, gapStart, gapSizeOf(args), p)
  /\ UNCHANGED session

CallSuggestedPrefixes ==
  /\ fn = "input"
  /\ \E parentPrefix \in 0..32 :
       /\ fn' = "suggestedPrefixes"
       /\ args' = [gapSize |-> gapSizeOf(args), parentPrefix |-> parentPrefix]
       /\ ret' = suggestedPrefixes(gapSizeOf(args), parentPrefix)
  /\ UNCHANGED session

CallSuggestSizes ==
  /\ fn = "input"
  /\ fn' = "suggestSizes"
  /\ args' = [gapSize |-> gapSizeOf(args)]
  /\ ret' = suggestSizes(gapSizeOf(args))
  /\ UNCHANGED session

GapNext ==
  \/ CallFirstAlignedCidr
  \/ CallFirstAlignedCidrAreaMap
  \/ CallSuggestedPrefixes
  \/ CallSuggestSizes

SpecGap == GapInit /\ [][GapNext]_vars

\* ------------------------------------------------------------------------
\* Direct children and segments: SubnetCanvas.tsx, SubnetBlock.tsx,
\* SubnetEditModal.tsx (AreaMap)
\* ------------------------------------------------------------------------

\* a SubnetEntry (types: id, cidr, name, colorLabelId, parentCidr)
Entry(id, cidr, parentCidr) ==
  [id |-> id, cidr |-> cidr, name |-> id, colorLabelId |-> Null, parentCidr |-> parentCidr]

\* the scopes the helpers are called with
SegScopes == { Cidr(192, 168, 0, 0, 24), Cidr(192, 168, 0, 0, 25) }

\* entries side by side, nested, equal to a scope, outside of it, with a parent link
\* that does not name the enclosing entry, and with text that is no CIDR
SegEntries ==
  { Entry("a", Cidr(192, 168, 0, 0, 26), Cidr(192, 168, 0, 0, 24)),
    Entry("b", Cidr(192, 168, 0, 64, 26), Cidr(192, 168, 0, 0, 25)),
    Entry("c", Cidr(192, 168, 0, 0, 27), Cidr(192, 168, 0, 0, 26)),
    Entry("d", Cidr(192, 168, 0, 128, 25), Cidr(192, 168, 0, 0, 24)),
    Entry("e", Cidr(192, 168, 0, 192, 27), Cidr(192, 168, 0, 0, 24)),
    Entry("f", Cidr(192, 168, 1, 0, 24), Cidr(192, 168, 0, 0, 23)),
    Entry("g", Cidr(192, 168, 0, 0, 24), Cidr(192, 168, 0, 0, 23)),
    Entry("h", Cidr(192, 168, 0, 0, 25), Cidr(192, 168, 0, 0, 24)),
    Entry("i", EmptyText, Cidr(192, 168, 0, 0, 24)) }

\* the roots the breadcrumb session is given, 192.168.0.0/28 and 192.168.0.64/28, and
\* every block of prefix up to 30 within them
SessionBlocks ==
  { Cidr(192, 168, 0, base + k * 2^(32 - p), p) :
      <<base, p, k>> \in { t \in {0, 64} \X (28..30) \X (0..3) : t[3] * 2^(32 - t[2]) < 16 } }

\* the CIDR texts the scopes and entries below hold
KnownTexts == SegScopes \cup { e.cidr : e \in SegEntries } \cup SessionBlocks

\* getSubnetInfo of each of them, computed once
InfoOfKnown == [text \in KnownTexts |-> getSubnetInfo(text)]

\* a call of getSubnetInfo from a component
infoOf(text) == IF text \in KnownTexts THEN InfoOfKnown[text] ELSE getSubnetInfo(text)

\* .map((s) => ({ s, info: getSubnetInfo(s.cidr) }))
withInfo(list) == [i \in 1..Len(list) |-> [s |-> list[i], info |-> infoOf(list[i].cidr)]]

\* x put behind every item
insertByNetworkInt_atEnd(x, sorted) == Append(sorted, x)

\* x put into an ascending list behind every item whose networkInt is not larger
RECURSIVE insertByNetworkInt(_, _)
insertByNetworkInt(x, sorted) ==
  IF sorted = <<>> THEN <<x>>
  ELSE IF NLt(x.info.networkInt, sorted[Len(sorted)].info.networkInt)
    THEN Append(insertByNetworkInt(x, SubSeq(sorted, 1, Len(sorted) - 1)),
                sorted[Len(sorted)])
    ELSE Append(sorted, x)

\* the list left in the order it was given
sortByNetworkInt_asGiven(list) == list

\* .sort((a, b) => a.info.networkInt - b.info.networkInt): stable
RECURSIVE sortByNetworkInt(_)
sortByNetworkInt(list) ==
  IF list = <<>> THEN <<>>
  ELSE Let(sortByNetworkInt(SubSeq(list, 1, Len(list) - 1)), LAMBDA front :
         insertByNetworkInt(list[Len(list)], front))

\* SubnetCanvas.tsx directChildren
directChildren(scope, allSubnets) ==
  Let(infoOf(scope), LAMBDA root :
    IF root = Null THEN <<>>
    ELSE LET keep(s) ==
               IF s.parentCidr # scope THEN FALSE
               ELSE Let(infoOf(s.cidr), LAMBDA si :
                      /\ si # Null
                      /\ NGe(si.networkInt, root.networkInt)
                      /\ NLe(si.broadcastInt, root.broadcastInt))
         IN  SelectSeq(allSubnets, keep))

\* the some() of SubnetBlock.tsx without otherInfo.prefix > info.prefix
hasIntermediateParent_anyPrefix(info, childInfo, s, allSubnets) ==
  \E k \in 1..Len(allSubnets) :
    LET other == allSubnets[k]
    IN  IF other.cidr = s.cidr THEN FALSE
        ELSE Let(infoOf(other.cidr), LAMBDA otherInfo :
               IF otherInfo = Null THEN FALSE
               ELSE /\ otherInfo.prefix < childInfo.prefix
                    /\ NGe(childInfo.networkInt, otherInfo.networkInt)
                    /\ NLe(childInfo.broadcastInt, otherInfo.broadcastInt))

\* SubnetBlock.tsx: allSubnets.some((other) => ...)
hasIntermediateParent(info, childInfo, s, allSubnets) ==
  \E k \in 1..Len(allSubnets) :
    LET other == allSubnets[k]
    IN  IF other.cidr = s.cidr THEN FALSE
        ELSE Let(infoOf(other.cidr), LAMBDA otherInfo :
               IF otherInfo = Null THEN FALSE
               ELSE /\ otherInfo.prefix > info.prefix
                    /\ otherInfo.prefix < childInfo.prefix
                    /\ NGe(childInfo.networkInt, otherInfo.networkInt)
                    /\ NLe(childInfo.broadcastInt, otherInfo.broadcastInt))

\* SubnetBlock.tsx directChildren of the block cidr
directChildrenBlock(cidr, allSubnets) ==
  Let(infoOf(cidr), LAMBDA info :
    IF info = Null THEN <<>>
    ELSE LET keep(s) ==
               Let(infoOf(s.cidr), LAMBDA childInfo :
                 IF childInfo = Null THEN FALSE
                 ELSE IF childInfo.prefix <= info.prefix THEN FALSE
                 ELSE IF \/ NLt(childInfo.networkInt, info.networkInt)
                         \/ NGt(childInfo.broadcastInt, info.broadcastInt) THEN FALSE
                 ELSE ~hasIntermediateParent(info, childInfo, s, allSubnets))
         IN  SelectSeq(allSubnets, keep))

\* segment of SubnetCanvas.tsx; the key `free-${start}-${end}` is kept as the pair
freeSegment(start, end) ==
  [type |-> "free", cidr |-> [free |-> <<start, end>>], start |-> start, end |-> end,
   size |-> NAdd(NSub(end, start), NInt(1))]

allocatedSegment(s, info) ==
  [type |-> "allocated", cidr |-> s.cidr, start |-> info.networkInt,
   end |-> info.broadcastInt, size |-> info.totalHosts, subnet |-> s]

\* the for loop of buildSegments with cursor = info.broadcastInt
RECURSIVE segmentLoop_cursorAtBroadcast(_, _, _, _)
segmentLoop_cursorAtBroadcast(sorted, i, cursor, segs) ==
  IF i > Len(sorted) THEN [cursor |-> cursor, segs |-> segs]
  ELSE LET s == sorted[i].s
           info == sorted[i].info
       IN  Let(IF NGt(info.networkInt, cursor)
                 THEN Append(segs, freeSegment(cursor, NSub(info.networkInt, NInt(1))))
                 ELSE segs,
               LAMBDA withFree :
                 segmentLoop_cursorAtBroadcast(sorted, i + 1, info.broadcastInt,
                             Append(withFree, allocatedSegment(s, info))))

\* for (const { s, info } of sorted) { ... } from item i on
RECURSIVE segmentLoop(_, _, _, _)
segmentLoop(sorted, i, cursor, segs) ==
  IF i > Len(sorted) THEN [cursor |-> cursor, segs |-> segs]
  ELSE LET s == sorted[i].s
           info == sorted[i].info
       IN  Let(IF NGt(info.networkInt, cursor)
                 THEN Append(segs, freeSegment(cursor, NSub(info.networkInt, NInt(1))))
                 ELSE segs,
               LAMBDA withFree :
                 segmentLoop(sorted, i + 1, NAdd(info.broadcastInt, NInt(1)),
                             Append(withFree, allocatedSegment(s, info))))

\* buildSegments without the free segment after the last entry
buildSegments_noTrailingFree(scope, list) ==
  Let(infoOf(scope), LAMBDA root :
    IF root = Null THEN <<>>
    ELSE
      LET hasInfo(x) == x.info # Null
      IN  Let(sortByNetworkInt(SelectSeq(withInfo(list), hasInfo)), LAMBDA sorted :
            segmentLoop(sorted, 1, root.networkInt, <<>>).segs))

\* SubnetCanvas.tsx buildSegments
buildSegments(scope, list) ==
  Let(infoOf(scope), LAMBDA root :
    IF root = Null THEN <<>>
    ELSE
      LET hasInfo(x) == x.info # Null
      IN  Let(sortByNetworkInt(SelectSeq(withInfo(list), hasInfo)), LAMBDA sorted :
            Let(segmentLoop(sorted, 1, root.networkInt, <<>>), LAMBDA walked :
              IF NLe(walked.cursor, root.broadcastInt)
                THEN Append(walked.segs, freeSegment(walked.cursor, root.broadcastInt))
                ELSE walked.segs)))


\* segments of AreaMap: start is relative to the root; the label
\* `${intToIp(from)}-${intToIp(to)}` of a free one is kept as the pair of addresses
freeSegmentAreaMap(baseInt, cursor, endInt) ==
  [cidr |-> [from |-> intToIp(cursor), to |-> intToIp(NSub(endInt, NInt(1)))],
   start |-> NSub(cursor, baseInt), size |-> NSub(endInt, cursor), subnet |-> Null]

allocatedSegmentAreaMap(baseInt, s, info) ==
  [cidr |-> s.cidr, start |-> NSub(info.networkInt, baseInt), size |-> info.totalHosts,
   subnet |-> s]

\* for (const { s, info } of sorted) { ... } of AreaMap's buildSegments, from item i on
RECURSIVE segmentLoopAreaMap(_, _, _, _, _)
segmentLoopAreaMap(sorted, i, baseInt, cursor, segments) ==
  IF i > Len(sorted) THEN [cursor |-> cursor, segments |-> segments]
  ELSE LET s == sorted[i].s
           info == sorted[i].info
       IN  Let(IF NGt(info.networkInt, cursor)
                 THEN Append(segments, freeSegmentAreaMap(baseInt, cursor, info.networkInt))
                 ELSE segments,
               LAMBDA withFree :
                 segmentLoopAreaMap(sorted, i + 1, baseInt,
                                    NAdd(info.broadcastInt, NInt(1)),
                                    Append(withFree, allocatedSegmentAreaMap(baseInt, s, info))))

\* SubnetEditModal.tsx buildSegments
buildSegmentsAreaMap(scope, list) ==
  Let(infoOf(scope), LAMBDA rootInfo :
    IF rootInfo = Null THEN <<>>
    ELSE
      LET baseInt == rootInfo.networkInt
          inRoot(x) == IF x.info = Null THEN FALSE
                       ELSE /\ NGe(x.info.networkInt, baseInt)
                            /\ NLe(x.info.broadcastInt, rootInfo.broadcastInt)
          endInt == NAdd(rootInfo.broadcastInt, NInt(1))
      IN  Let(sortByNetworkInt(SelectSeq(withInfo(list), inRoot)), LAMBDA sorted :
            Let(segmentLoopAreaMap(sorted, 1, baseInt, baseInt, <<>>), LAMBDA walked :
              IF NLt(walked.cursor, endInt)
                THEN Append(walked.segments,
                            freeSegmentAreaMap(baseInt, walked.cursor, endInt))
                ELSE walked.segments)))

\* config.subnets.find((s) => s.id === id); Null when there is none
findById(list, id) ==
  IF \E i \in 1..Len(list) : list[i].id = id
    THEN list[CHOOSE i \in 1..Len(list) :
                /\ list[i].id = id
                /\ \A j \in 1..(i - 1) : list[j].id # id]
    ELSE Null

\* prev.indexOf(x): 0-based, -1 when absent
indexOf(prev, x) ==
  IF \E i \in 1..Len(prev) : prev[i] = x
    THEN (CHOOSE i \in 1..Len(prev) : prev[i] = x /\ \A j \in 1..(i - 1) : prev[j] # x) - 1
    ELSE -1

\* deleteSubnet whose cascade test forgets the upper end of the target's range
deleteSubnet_noUpperEnd(list, prev, id) ==
  Let(findById(list, id), LAMBDA target :
    IF target = Null THEN [subnets |-> list, breadcrumbs |-> prev]
    ELSE Let(infoOf(target.cidr), LAMBDA targetInfo :
      LET keep(s) ==
            IF s.id = id THEN FALSE
            ELSE Let(infoOf(s.cidr), LAMBDA si :
                   IF si = Null \/ targetInfo = Null THEN TRUE
                   ELSE ~NGe(si.networkInt, targetInfo.networkInt))
          idx == indexOf(prev, target.cidr)
      IN  [subnets |-> SelectSeq(list, keep),
           breadcrumbs |-> IF idx >= 0 THEN SubSeq(prev, 1, idx) ELSE prev]))

\* deleteSubnet without the cascade: only the entry with the id is removed
deleteSubnet_onlyTarget(list, prev, id) ==
  Let(findById(list, id), LAMBDA target :
    IF target = Null THEN [subnets |-> list, breadcrumbs |-> prev]
    ELSE LET keep(s) == s.id # id
             idx == indexOf(prev, target.cidr)
         IN  [subnets |-> SelectSeq(list, keep),
              breadcrumbs |-> IF idx >= 0 THEN SubSeq(prev, 1, idx) ELSE prev])

\* deleteSubnet without the pop of the breadcrumbs
deleteSubnet_keepsBreadcrumbs(list, prev, id) ==
  Let(findById(list, id), LAMBDA target :
    IF target = Null THEN [subnets |-> list, breadcrumbs |-> prev]
    ELSE Let(infoOf(target.cidr), LAMBDA targetInfo :
      LET keep(s) ==
            IF s.id = id THEN FALSE
            ELSE Let(infoOf(s.cidr), LAMBDA si :
                   IF si = Null \/ targetInfo = Null THEN TRUE
                   ELSE ~(/\ NGe(si.networkInt, targetInfo.networkInt)
                          /\ NLe(si.broadcastInt, targetInfo.broadcastInt)))
      IN  [subnets |-> SelectSeq(list, keep), breadcrumbs |-> prev]))


\* part_003 deleteSubnet: the new config.subnets and breadcrumbs
deleteSubnet(list, prev, id) ==
  Let(findById(list, id), LAMBDA target :
    IF target = Null THEN [subnets |-> list, breadcrumbs |-> prev]
    ELSE Let(infoOf(target.cidr), LAMBDA targetInfo :
      LET keep(s) ==
            IF s.id = id THEN FALSE
            ELSE Let(infoOf(s.cidr), LAMBDA si :
                   IF si = Null \/ targetInfo = Null THEN TRUE
                   ELSE ~(/\ NGe(si.networkInt, targetInfo.networkInt)
                          /\ NLe(si.broadcastInt, targetInfo.broadcastInt)))
          \* prev.slice(0, idx)
          idx == indexOf(prev, target.cidr)
      IN  [subnets |-> SelectSeq(list, keep),
           breadcrumbs |-> IF idx >= 0 THEN SubSeq(prev, 1, idx) ELSE prev]))

\* page.tsx handleDeleteSubnet: the new config.subnets
handleDeleteSubnet(list, id) ==
  Let(findById(list, id), LAMBDA subnet :
    IF subnet = Null THEN list
    ELSE Let(infoOf(subnet.cidr), LAMBDA si :
      LET inToDelete(s) ==
            IF s.id = id THEN TRUE
            ELSE Let(infoOf(s.cidr), LAMBDA ci :
                   /\ ci # Null
                   /\ si # Null
                   /\ NGe(ci.networkInt, si.networkInt)
                   /\ NLe(ci.broadcastInt, si.broadcastInt))
      IN  Let(SelectSeq(list, inToDelete), LAMBDA toDelete :
            LET keep(s) == ~\E k \in 1..Len(toDelete) : toDelete[k].id = s.id
            IN  SelectSeq(list, keep))))

\* a colour label id and a note; null stands for no label and for no note
Label(id) == [id |-> id]

Note(text) == [text |-> text]

\* the value of a name or notes field: its text, and whether blanks surround it
Typed(text, blanks) == [text |-> text, blanks |-> blanks]

\* value.trim()
trimTyped(value) == value.text

\* { ...s, ...patch }
spread(s, patch) == patch @@ s

\* updateSubnet with the patch applied to every entry
updateSubnet_everyEntry(list, id, patch) ==
  [i \in 1..Len(list) |-> spread(list[i], patch)]

\* part_003 updateSubnet: the new config.subnets
updateSubnet(list, id, patch) ==
  [i \in 1..Len(list) |-> IF list[i].id = id THEN spread(list[i], patch) ELSE list[i]]

\* InlineEditor of SubnetCanvas: the patch its onSave hands to onUpdateSubnet
inlinePatch(name, labelId) ==
  [name |-> IF trimTyped(name) = "" THEN "Unnamed" ELSE trimTyped(name),
   colorLabelId |-> labelId]

\* SubnetEditModal.handleSave: the argument of onSave, null when nothing is saved
handleSave(subnet, name, selectedLabelId, notes) ==
  IF trimTyped(name) = "" THEN Null
  ELSE [id |-> subnet.id, name |-> trimTyped(name), colorLabelId |-> selectedLabelId,
        notes |-> IF trimTyped(notes) = "" THEN Null ELSE Note(trimTyped(notes))]

\* page.tsx handleSaveSubnet: the new config.subnets; parent is
\* selectedBlock ?? config.rootCidr
handleSaveSubnet(list, isNewSubnet, pendingCidr, parent, updated) ==
  IF isNewSubnet
    THEN Append(list, [id |-> updated.id, cidr |-> pendingCidr, name |-> updated.name,
                       colorLabelId |-> updated.colorLabelId, parentCidr |-> parent,
                       notes |-> updated.notes])
    ELSE [i \in 1..Len(list) |->
            IF list[i].id = updated.id THEN spread(list[i], updated) ELSE list[i]]

\* the most entries a set given to the helpers holds
MaxEntries == 3

\* lists of at most MaxEntries different entries
SegLists ==
  UNION { { l \in [1..n -> SegEntries] : \A i, j \in 1..n : i # j => l[i] # l[j] } :
          n \in 0..MaxEntries }

SegInit ==
  /\ fn = "input"
  /\ args \in [rootCidr : SegScopes, subnets : SegLists]
  /\ ret = Null
  /\ NoSession

CallDirectChildren ==
  /\ fn = "input"
  /\ fn' = "directChildren"
  /\ ret' = directChildren(args.rootCidr, args.subnets)
  /\ UNCHANGED <<args, session>>

CallDirectChildrenBlock ==
  /\ fn = "input"
  /\ fn' = "SubnetBlock.directChildren"
  /\ ret' = directChildrenBlock(args.rootCidr, args.subnets)
  /\ UNCHANGED <<args, session>>

CallBuildSegments ==
  /\ fn = "input"
  /\ fn' = "buildSegments"
  /\ ret' = buildSegments(args.rootCidr, args.subnets)
  /\ UNCHANGED <<args, session>>

CallBuildSegmentsAreaMap ==
  /\ fn = "input"
  /\ fn' = "AreaMap.buildSegments"
  /\ ret' = buildSegmentsAreaMap(args.rootCidr, args.subnets)
  /\ UNCHANGED <<args, session>>

\* SubnetCanvas: subnets = directChildren(rootCidr, allSubnets);
\*               segments = buildSegments(rootCidr, subnets)
RenderSubnetCanvas ==
  /\ fn = "input"
  /\ fn' = "SubnetCanvas"
  /\ ret' = buildSegments(args.rootCidr, directChildren(args.rootCidr, args.subnets))
  /\ UNCHANGED <<args, session>>

\* the ids a delete is asked for: those of the list and one that no entry has
deleteIds(list) == { list[i].id : i \in 1..Len(list) } \cup {"none"}

\* breadcrumbs at the time of a delete: at the root or drilled into an entry
deleteCrumbs(scope, list) == {<<scope>>} \cup { <<scope, list[i].cidr>> : i \in 1..Len(list) }

CallDeleteSubnet ==
  /\ fn = "input"
  /\ \E id \in deleteIds(args.subnets), prev \in deleteCrumbs(args.rootCidr, args.subnets) :
       /\ fn' = "deleteSubnet"
       /\ args' = [rootCidr |-> args.rootCidr, subnets |-> args.subnets,
                   breadcrumbs |-> prev, id |-> id]
       /\ ret' = deleteSubnet(args.subnets, prev, id)
  /\ UNCHANGED session

CallHandleDeleteSubnet ==
  /\ fn = "input"
  /\ \E id \in deleteIds(args.subnets) :
       /\ fn' = "handleDeleteSubnet"
       /\ args' = [rootCidr |-> args.rootCidr, subnets |-> args.subnets, id |-> id]
       /\ ret' = [subnets |-> handleDeleteSubnet(args.subnets, id)]
  /\ UNCHANGED session

\* what is typed into the name field, the notes field, and the label that is picked
TypedNames == { Typed("lan", FALSE), Typed("dmz", TRUE), Typed("", TRUE) }

TypedNotes == { Typed("", FALSE), Typed("uplink", TRUE) }

Labels == { Null, Label("priv") }

\* InlineEditor save on an entry of the list, or with an id no entry has
CallUpdateSubnet ==
  /\ fn = "input"
  /\ \E id \in deleteIds(args.subnets), name \in TypedNames, labelId \in Labels :
       /\ fn' = "updateSubnet"
       /\ args' = [rootCidr |-> args.rootCidr, subnets |-> args.subnets, id |-> id,
                   isNewSubnet |-> FALSE, patch |-> inlinePatch(name, labelId)]
       /\ ret' = [subnets |-> updateSubnet(args.subnets, id, inlinePatch(name, labelId))]
  /\ UNCHANGED session

\* the modal of page.tsx saved: opened by onEdit for an entry of the list, or by
\* handleAddSubnet for a new block with a placeholder entry
CallHandleSaveSubnet ==
  /\ fn = "input"
  /\ \E isNewSubnet \in BOOLEAN, k \in 1..Len(args.subnets), name \in TypedNames,
        labelId \in Labels, notes \in TypedNotes :
       LET pendingCidr == Cidr(192, 168, 0, 32, 27)
           editingSubnet == IF isNewSubnet
                              THEN Entry("new", pendingCidr, args.rootCidr)
                              ELSE args.subnets[k]
           updated == handleSave(editingSubnet, name, labelId, notes)
       IN  /\ isNewSubnet => k = 1
           /\ fn' = "handleSaveSubnet"
           /\ args' = [rootCidr |-> args.rootCidr, subnets |-> args.subnets,
                       id |-> editingSubnet.id, isNewSubnet |-> isNewSubnet,
                       patch |-> updated]
           /\ ret' = [subnets |-> IF updated = Null THEN args.subnets
                                  ELSE handleSaveSubnet(args.subnets, isNewSubnet,
                                                        pendingCidr, args.rootCidr, updated)]
  /\ UNCHANGED session

SegNext ==
  \/ CallUpdateSubnet
  \/ CallHandleSaveSubnet
  \/ CallDirectChildren
  \/ CallDirectChildrenBlock
  \/ CallBuildSegments
  \/ CallBuildSegmentsAreaMap
  \/ RenderSubnetCanvas
  \/ CallDeleteSubnet
  \/ CallHandleDeleteSubnet

SpecSeg == SegInit /\ [][SegNext]_vars

\* ------------------------------------------------------------------------
\* The pages: start-up, import and the root CIDR form
\* ------------------------------------------------------------------------

CGNAT_ROOT == Cidr(100, 64, 0, 0, 10)

\* the three pages of the repository
Pages == {"part_003", "part_002", "page.tsx"}

\* the fields of a config the handlers below read: rootCidr and subnets
makeDefault(pg) ==
  [rootCidr |-> IF pg = "page.tsx" THEN CGNAT_ROOT ELSE EmptyText, subnets |-> <<>>]

\* a non-empty string
truthy(text) == text # EmptyText

\* the text JSON.stringify gives for a value, and a text that is no JSON
Json(value) == [json |-> value]

Garbage == [garbage |-> TRUE]

\* JSON.parse with its exception caught: the value, or null
jsonParse(raw) == IF "json" \in DOMAIN raw THEN raw.json ELSE Null

decodeConfig(encoded) == jsonParse(encoded)

loadFromStorage(raw) == IF raw = Null THEN Null ELSE jsonParse(raw)

\* a text typed with blanks around it
padded(text) == [octets |-> text.octets, prefix |-> text.prefix, space |-> TRUE]

\* configs a file, a link or the storage can hold: written by the pages, and written
\* by hand with a root or an entry that is unaligned or no CIDR
LoadConfigs ==
  { [rootCidr |-> Cidr(192, 168, 0, 0, 24),
     subnets |-> <<Entry("a", Cidr(192, 168, 0, 0, 26), Cidr(192, 168, 0, 0, 24))>>],
    [rootCidr |-> Cidr(10, 0, 0, 0, 8), subnets |-> <<>>],
    [rootCidr |-> CGNAT_ROOT,
     subnets |-> <<Entry("n", Cidr(100, 64, 0, 0, 24), Cidr(100, 64, 0, 0, 16))>>],
    [rootCidr |-> EmptyText, subnets |-> <<>>],
    [rootCidr |-> Cidr(192, 168, 0, 77, 24), subnets |-> <<>>],
    [rootCidr |-> Cidr(256, 0, 0, 0, 8), subnets |-> <<>>],
    [rootCidr |-> Cidr(192, 168, 0, 0, 24),
     subnets |-> <<Entry("u", Cidr(192, 168, 0, 5, 26), Cidr(192, 168, 0, 0, 24))>>],
    [rootCidr |-> Cidr(192, 168, 0, 0, 24),
     subnets |-> <<Entry("m", Cidr(192, 168, 0, 0, 33), Cidr(192, 168, 0, 0, 24))>>] }

LoadRaws == {Garbage} \cup { Json(c) : c \in LoadConfigs }

\* the ?config= parameter and the storage item, null when absent
LoadLinks == {Null} \cup LoadRaws

\* texts typed into the root CIDR form
SubmitTexts ==
  { Cidr(192, 168, 0, 0, 28), Cidr(192, 168, 0, 77, 28), padded(Cidr(192, 168, 0, 0, 28)),
    Cidr(10, 0, 0, 0, 29), Cidr(256, 0, 0, 0, 8), Cidr(10, 0, 0, 0, 33),
    [octets |-> <<<<1, 0>>, <<0>>, <<0>>>>, prefix |-> <<8>>],
    [octets |-> <<<<1, 0>>, <<0>>, <<Letter>>, <<0>>>>, prefix |-> <<8>>],
    padded(Cidr(10, 0, 0, 999, 24)), EmptyText }

\* the first render of a page, its effects not yet run, with the ?config= parameter
\* of the address and the storage as they are found
LoadInit ==
  /\ fn = "mount"
  /\ args \in [encoded : LoadLinks]
  /\ ret = Null
  /\ page \in Pages
  /\ rootCidr = makeDefault(page).rootCidr
  /\ subnets = makeDefault(page).subnets
  /\ breadcrumbs = <<>>
  /\ hydrated = FALSE
  /\ cidrInput = EmptyText
  /\ cidrError = Null
  /\ activeCidr = Null
  /\ selectedChildPrefix = Null
  /\ selectedBlock = Null
  /\ stored \in LoadLinks

\* the config of the session
config == [rootCidr |-> rootCidr, subnets |-> subnets]

\* the state the setters called by a hydrate effect leave for the next render
queued(c, crumbs, input) ==
  [rootCidr |-> c.rootCidr, subnets |-> c.subnets, breadcrumbs |-> crumbs,
   cidrInput |-> input]

\* the hydrate effect of the breadcrumb page
hydrate_part_003(encoded, raw) ==
  LET decoded == IF encoded = Null THEN Null ELSE decodeConfig(encoded)
      loaded == loadFromStorage(raw)
  IN  IF decoded # Null /\ truthy(decoded.rootCidr)
      THEN queued(decoded, <<decoded.rootCidr>>, cidrInput)
      ELSE IF loaded # Null
      THEN queued(loaded,
                  IF truthy(loaded.rootCidr) THEN <<loaded.rootCidr>> ELSE breadcrumbs,
                  cidrInput)
      ELSE queued(config, breadcrumbs, cidrInput)

\* the hydrate effect of the Netslice page
hydrate_part_002(encoded, raw) ==
  LET decoded == IF encoded = Null THEN Null ELSE decodeConfig(encoded)
      loaded == loadFromStorage(raw)
  IN  IF decoded # Null /\ truthy(decoded.rootCidr)
      THEN queued(decoded, breadcrumbs, decoded.rootCidr)
      ELSE IF loaded # Null /\ truthy(loaded.rootCidr)
      THEN queued(loaded, breadcrumbs, loaded.rootCidr)
      ELSE queued(config, breadcrumbs, cidrInput)

\* the hydrate effect of the CG-NAT page
hydrate_page(encoded, raw) ==
  LET decoded == IF encoded = Null THEN Null ELSE decodeConfig(encoded)
      loaded == loadFromStorage(raw)
  IN  IF decoded # Null THEN queued(decoded, breadcrumbs, cidrInput)
      ELSE IF loaded # Null THEN queued(loaded, breadcrumbs, cidrInput)
      ELSE queued(config, breadcrumbs, cidrInput)

\* saveToStorage(c): the item it leaves in the storage
saveToStorage(c) == Json(c)

\* the persist effect without its test of hydrated
persistEffect_unguarded(isHydrated, c, item) == saveToStorage(c)

\* the persist effect run with the state of a render: the item in the storage after it
persistEffect(isHydrated, c, item) ==
  IF ~isHydrated THEN item ELSE saveToStorage(c)

\* the persist effect after a handler: it runs when config or hydrated changed
persist ==
  stored' = IF config' # config \/ hydrated' # hydrated
              THEN persistEffect(hydrated', config', stored)
              ELSE stored

\* the effects of the first render, in the order of their declaration: the hydrate
\* effect reads the link and the storage and calls the setters, the persist effect
\* runs with hydrated = false
MountEffects ==
  /\ fn = "mount"
  /\ fn' = "effects"
  /\ ret' = CASE page = "part_003" -> hydrate_part_003(args.encoded, stored)
              [] page = "part_002" -> hydrate_part_002(args.encoded, stored)
              [] page = "page.tsx" -> hydrate_page(args.encoded, stored)
  /\ stored' = persistEffect(hydrated, config, stored)
  /\ UNCHANGED <<args, rootCidr, subnets, breadcrumbs, page, hydrated, cidrInput, cidrError,
                 activeCidr, selectedChildPrefix, selectedBlock>>

\* the render that follows: the state the hydrate effect set, hydrated = true, and
\* the persist effect
Hydrate ==
  /\ fn = "effects"
  /\ fn' = "hydrate"
  /\ args' = [encoded |-> args.encoded, raw |-> stored]
  /\ rootCidr' = ret.rootCidr
  /\ subnets' = ret.subnets
  /\ breadcrumbs' = ret.breadcrumbs
  /\ cidrInput' = ret.cidrInput
  /\ ret' = Null
  /\ hydrated' = TRUE
  /\ persist
  /\ UNCHANGED <<page, cidrError, activeCidr, selectedChildPrefix, selectedBlock>>

\* setConfig(c)
setConfig(c) ==
  /\ rootCidr' = c.rootCidr
  /\ subnets' = c.subnets

\* onImport of each page
onImport(imported) ==
  /\ setConfig(imported)
  /\ CASE page = "part_003" ->
            /\ breadcrumbs' = IF truthy(imported.rootCidr) THEN <<imported.rootCidr>> ELSE <<>>
            /\ UNCHANGED <<cidrInput, activeCidr, selectedChildPrefix, selectedBlock>>
       [] page = "part_002" ->
            /\ cidrInput' = imported.rootCidr
            /\ activeCidr' = Null
            /\ selectedChildPrefix' = Null
            /\ UNCHANGED <<breadcrumbs, selectedBlock>>
       [] page = "page.tsx" ->
            /\ selectedBlock' = Null
            /\ UNCHANGED <<breadcrumbs, cidrInput, activeCidr, selectedChildPrefix>>

\* Toolbar.handleFileChange with the text of the chosen file
handleFileChange(raw) ==
  LET parsed == jsonParse(raw)
  IN  IF parsed = Null
      THEN /\ ret' = [alert |-> "Invalid JSON file"]
           /\ UNCHANGED <<rootCidr, subnets, breadcrumbs, cidrInput, activeCidr,
                          selectedChildPrefix, selectedBlock>>
      ELSE /\ ret' = Null
           /\ IF truthy(parsed.rootCidr)
              THEN onImport(parsed)
              ELSE UNCHANGED <<rootCidr, subnets, breadcrumbs, cidrInput, activeCidr,
                               selectedChildPrefix, selectedBlock>>

ImportFile ==
  /\ hydrated
  /\ \E raw \in LoadRaws :
       /\ fn' = "handleFileChange"
       /\ args' = [raw |-> raw]
       /\ handleFileChange(raw)
  /\ UNCHANGED <<page, hydrated, cidrError>>
  /\ persist

\* onChange of the root CIDR field (CidrInput of the breadcrumb page, shown while there
\* is no root; the sidebar field of the Netslice page)
OnChange ==
  /\ hydrated
  /\ \/ page = "part_003" /\ ~truthy(rootCidr)
     \/ page = "part_002"
  /\ \E text \in SubmitTexts :
       /\ fn' = "onChange"
       /\ args' = [value |-> text]
       /\ cidrInput' = text
  /\ ret' = Null
  /\ cidrError' = Null
  /\ UNCHANGED <<rootCidr, subnets, breadcrumbs, page, hydrated, activeCidr,
                 selectedChildPrefix, selectedBlock>>
  /\ persist

\* the largest prefix CidrInput takes as a root
MaxRootPrefix == 28

\* CidrInput.validate
validate(raw) ==
  Let(normalizeCidr(trim(raw)), LAMBDA norm :
    IF norm = Null THEN [message |-> "Enter a valid CIDR, e.g. 10.0.0.0/8"]
    ELSE Let(getSubnetInfo(norm), LAMBDA inf :
      IF inf = Null THEN [message |-> "Invalid CIDR block"]
      ELSE IF inf.prefix > MaxRootPrefix
      THEN [message |-> "Choose a prefix <= /28 to have room to work"]
      ELSE Null))

handleRootCidr(cidr) ==
  LET norm == normalizeCidr(cidr)
  IN  IF norm = Null
      THEN UNCHANGED <<rootCidr, subnets, breadcrumbs>>
      ELSE /\ rootCidr' = norm
           /\ subnets' = <<>>
           /\ breadcrumbs' = <<norm>>

\* CidrInput.submit with the typed value; once a root is set the form is gone
submit ==
  LET err == validate(cidrInput)
  IN  IF err # Null
      THEN /\ cidrError' = err
           /\ UNCHANGED <<rootCidr, subnets, breadcrumbs, cidrInput>>
      ELSE /\ handleRootCidr(normalizeCidr(trim(cidrInput)))
           /\ cidrError' = Null
           /\ cidrInput' = EmptyText

CidrInputSubmit ==
  /\ hydrated
  /\ page = "part_003"
  /\ ~truthy(rootCidr)
  /\ fn' = "CidrInput.submit"
  /\ args' = [value |-> cidrInput]
  /\ ret' = Null
  /\ submit
  /\ UNCHANGED <<page, hydrated, activeCidr, selectedChildPrefix, selectedBlock>>
  /\ persist

handleCidrSubmit_clearsFirst ==
  LET normalized == normalizeCidr(trim(cidrInput))
  IN  /\ subnets' = <<>>
      /\ activeCidr' = Null
      /\ selectedChildPrefix' = Null
      /\ IF normalized = Null
         THEN /\ cidrError' = [message |-> "Invalid CIDR - use format like 10.0.0.0/16"]
              /\ UNCHANGED <<rootCidr, cidrInput>>
         ELSE /\ cidrError' = Null
              /\ rootCidr' = normalized
              /\ cidrInput' = normalized

handleCidrSubmit ==
  LET normalized == normalizeCidr(trim(cidrInput))
  IN  IF normalized = Null
      THEN /\ cidrError' = [message |-> "Invalid CIDR - use format like 10.0.0.0/16"]
           /\ UNCHANGED <<rootCidr, subnets, cidrInput, activeCidr, selectedChildPrefix>>
      ELSE /\ cidrError' = Null
           /\ rootCidr' = normalized
           /\ subnets' = <<>>
           /\ cidrInput' = normalized
           /\ activeCidr' = Null
           /\ selectedChildPrefix' = Null

HandleCidrSubmit ==
  /\ hydrated
  /\ page = "part_002"
  /\ fn' = "handleCidrSubmit"
  /\ args' = [value |-> cidrInput]
  /\ ret' = Null
  /\ handleCidrSubmit
  /\ UNCHANGED <<breadcrumbs, page, hydrated, selectedBlock>>
  /\ persist

\* the blocks the Netslice page shows for a click: the root and the entries
clickable == {rootCidr} \cup { subnets[i].cidr : i \in 1..Len(subnets) }

HandleBlockClick ==
  /\ hydrated
  /\ page = "part_002"
  /\ truthy(rootCidr)
  /\ \E cidr \in clickable :
       /\ fn' = "handleBlockClick"
       /\ args' = [cidr |-> cidr]
       /\ activeCidr' = IF activeCidr = cidr THEN Null ELSE cidr
  /\ ret' = Null
  /\ selectedChildPrefix' = Null
  /\ UNCHANGED <<rootCidr, subnets, breadcrumbs, page, hydrated, cidrInput, cidrError,
                 selectedBlock>>
  /\ persist

\* onSelectPrefix of the size picker, shown for the active block
OnSelectPrefix ==
  /\ hydrated
  /\ page = "part_002"
  /\ activeCidr # Null
  /\ \E p \in {26, 28} :
       /\ fn' = "onSelectPrefix"
       /\ args' = [prefix |-> NInt(p)]
       /\ selectedChildPrefix' = NInt(p)
  /\ ret' = Null
  /\ UNCHANGED <<rootCidr, subnets, breadcrumbs, page, hydrated, cidrInput, cidrError,
                 activeCidr, selectedBlock>>
  /\ persist

\* onSelectBlock of the CG-NAT block selector
OnSelectBlock ==
  /\ hydrated
  /\ page = "page.tsx"
  /\ \E block \in {Cidr(100, 64, 0, 0, 16), Cidr(100, 65, 0, 0, 16)} :
       /\ fn' = "onSelectBlock"
       /\ args' = [block |-> block]
       /\ selectedBlock' = IF selectedBlock = block THEN Null ELSE block
  /\ ret' = Null
  /\ UNCHANGED <<rootCidr, subnets, breadcrumbs, page, hydrated, cidrInput, cidrError,
                 activeCidr, selectedChildPrefix>>
  /\ persist

\* the button giving up the root, the entries left as they are
ChangeRoot_keepsSubnets ==
  /\ hydrated
  /\ page = "part_003"
  /\ truthy(rootCidr)
  /\ fn' = "changeRoot"
  /\ args' = Null
  /\ ret' = Null
  /\ rootCidr' = EmptyText
  /\ breadcrumbs' = <<>>
  /\ UNCHANGED <<subnets, page, hydrated, cidrInput, cidrError, activeCidr,
                 selectedChildPrefix, selectedBlock>>
  /\ persist


\* the change-root button of the breadcrumb page, shown while there is a root
ChangeRoot ==
  /\ hydrated
  /\ page = "part_003"
  /\ truthy(rootCidr)
  /\ fn' = "changeRoot"
  /\ args' = Null
  /\ ret' = Null
  /\ rootCidr' = EmptyText
  /\ subnets' = <<>>
  /\ breadcrumbs' = <<>>
  /\ UNCHANGED <<page, hydrated, cidrInput, cidrError, activeCidr, selectedChildPrefix,
                 selectedBlock>>
  /\ persist

LoadNext ==
  \/ MountEffects
  \/ Hydrate
  \/ ImportFile
  \/ OnChange
  \/ CidrInputSubmit
  \/ HandleCidrSubmit
  \/ HandleBlockClick
  \/ OnSelectPrefix
  \/ OnSelectBlock
  \/ ChangeRoot

SpecLoad == LoadInit /\ [][LoadNext]_vars

\* ------------------------------------------------------------------------
\* The breadcrumb page with a root: canvas, list, drill-down
\* ------------------------------------------------------------------------

\* the most entries the session is taken to, and the longest breadcrumb stack
MaxSessionEntries == 2

MaxCrumbs == 2

\* the page hydrated with nothing in the link and nothing stored
SessionInit ==
  /\ fn = "hydrate"
  /\ args = [encoded |-> Null, raw |-> Null]
  /\ ret = Null
  /\ page = "part_003"
  /\ rootCidr = makeDefault(page).rootCidr
  /\ subnets = makeDefault(page).subnets
  /\ breadcrumbs = <<>>
  /\ hydrated = TRUE
  /\ cidrInput = EmptyText
  /\ cidrError = Null
  /\ activeCidr = Null
  /\ selectedChildPrefix = Null
  /\ selectedBlock = Null
  /\ stored = saveToStorage(config)

\* const activeCidr = breadcrumbs[breadcrumbs.length - 1] ?? config.rootCidr
activeScope == IF breadcrumbs # <<>> THEN breadcrumbs[Len(breadcrumbs)] ELSE rootCidr

\* the segments SubnetCanvas shows for the active scope
shownSegments == buildSegments(activeScope, directChildren(activeScope, subnets))

\* the entries the list tab shows
scopedSubnets ==
  Let(infoOf(activeScope), LAMBDA parent :
    LET inScope(s) ==
          Let(infoOf(s.cidr), LAMBDA child :
            IF parent = Null \/ child = Null THEN FALSE
            ELSE /\ NGe(child.networkInt, parent.networkInt)
                 /\ NLe(child.broadcastInt, parent.broadcastInt))
    IN  SelectSeq(subnets, inScope))

\* nanoid(): an id that no entry of the session has
IdPool == <<"n1", "n2", "n3", "n4", "n5", "n6", "n7", "n8">>

nanoid ==
  IdPool[CHOOSE k \in 1..Len(IdPool) :
           /\ \A i \in 1..Len(subnets) : subnets[i].id # IdPool[k]
           /\ \A j \in 1..(k - 1) : \E i \in 1..Len(subnets) : subnets[i].id = IdPool[j]]

\* the blocks the GapExpander of a free segment offers: firstAlignedCidr for each
\* suggested prefix, where it is not null
offered(seg, parentPrefix) ==
  LET prefixes == suggestedPrefixes(seg.size, parentPrefix)
  IN  { firstAlignedCidr(seg.start, seg.end, prefixes[j]) : j \in 1..Len(prefixes) }
        \ {Null}

\* handleAdd without its parentCidr: the entry keeps the parentCidr of commit
gapEntry_ownParent(chosenCidr, name, labelId) ==
  [id |-> nanoid, cidr |-> chosenCidr,
   name |-> IF trimTyped(name) = "" THEN "Unnamed" ELSE trimTyped(name),
   colorLabelId |-> labelId, parentCidr |-> chosenCidr]

\* GapExpander.commit and handleAdd: the entry handed to addSubnet
gapEntry(chosenCidr, name, labelId) ==
  spread([id |-> nanoid, cidr |-> chosenCidr,
          name |-> IF trimTyped(name) = "" THEN "Unnamed" ELSE trimTyped(name),
          colorLabelId |-> labelId, parentCidr |-> chosenCidr],
         [parentCidr |-> activeScope])

\* a free segment of the canvas is opened, a size picked, and the entry committed
AddSubnet ==
  /\ hydrated
  /\ page = "part_003"
  /\ truthy(rootCidr)
  /\ Len(subnets) < MaxSessionEntries
  /\ \E segments \in {shownSegments} :
         \E k \in 1..Len(segments) :
           /\ segments[k].type = "free"
           /\ \E chosenCidr \in offered(segments[k], infoOf(activeScope).prefix) :
                /\ fn' = "addSubnet"
                /\ args' = [cidr |-> chosenCidr]
                /\ subnets' = Append(subnets,
                                     gapEntry(chosenCidr, Typed("", FALSE), Label("pub")))
  /\ ret' = Null
  /\ UNCHANGED <<rootCidr, breadcrumbs, page, hydrated, cidrInput, cidrError, activeCidr,
                 selectedChildPrefix, selectedBlock>>
  /\ persist

\* "Drill in" on an allocated segment of the canvas, or onSelect of the list
DrillDown ==
  /\ hydrated
  /\ page = "part_003"
  /\ truthy(rootCidr)
  /\ Len(breadcrumbs) < MaxCrumbs
  /\ \E cidr \in { s.cidr : s \in Range(directChildren(activeScope, subnets))
                                    \cup Range(scopedSubnets) } :
       /\ fn' = "drillDown"
       /\ args' = [cidr |-> cidr]
       /\ breadcrumbs' = Append(breadcrumbs, cidr)
  /\ ret' = Null
  /\ UNCHANGED <<rootCidr, subnets, page, hydrated, cidrInput, cidrError, activeCidr,
                 selectedChildPrefix, selectedBlock>>
  /\ persist

\* prev.slice(0, idx + 1) when cidr is in the stack, prev when it is not
navigateTo(prev, cidr) ==
  LET idx == indexOf(prev, cidr)
  IN  IF idx >= 0 THEN SubSeq(prev, 1, idx + 1) ELSE prev

\* navigateTo is called by no element of the page; taken here with each breadcrumb and
\* with a text that is in no stack
NavigateTo ==
  /\ hydrated
  /\ page = "part_003"
  /\ truthy(rootCidr)
  /\ \E cidr \in Range(breadcrumbs) \cup {EmptyText} :
       /\ fn' = "navigateTo"
       /\ args' = [cidr |-> cidr]
       /\ breadcrumbs' = navigateTo(breadcrumbs, cidr)
  /\ ret' = Null
  /\ UNCHANGED <<rootCidr, subnets, page, hydrated, cidrInput, cidrError, activeCidr,
                 selectedChildPrefix, selectedBlock>>
  /\ persist

\* the back button, shown when isDeep
GoBack ==
  /\ hydrated
  /\ page = "part_003"
  /\ truthy(rootCidr)
  /\ Len(breadcrumbs) > 1
  /\ fn' = "goBack"
  /\ args' = Null
  /\ ret' = Null
  /\ breadcrumbs' = IF Len(breadcrumbs) > 1
                      THEN SubSeq(breadcrumbs, 1, Len(breadcrumbs) - 1)
                      ELSE breadcrumbs
  /\ UNCHANGED <<rootCidr, subnets, page, hydrated, cidrInput, cidrError, activeCidr,
                 selectedChildPrefix, selectedBlock>>
  /\ persist

\* save of the InlineEditor of an allocated segment
UpdateSubnet ==
  /\ hydrated
  /\ page = "part_003"
  /\ truthy(rootCidr)
  /\ \E s \in Range(directChildren(activeScope, subnets)) :
       /\ fn' = "updateSubnet"
       /\ args' = [id |-> s.id, patch |-> inlinePatch(Typed("lan", TRUE), Label("priv"))]
       /\ subnets' = updateSubnet(subnets, s.id, inlinePatch(Typed("lan", TRUE), Label("priv")))
  /\ ret' = Null
  /\ UNCHANGED <<rootCidr, breadcrumbs, page, hydrated, cidrInput, cidrError, activeCidr,
                 selectedChildPrefix, selectedBlock>>
  /\ persist

\* delete from the InlineEditor of an allocated segment or from the list
DeleteSubnet ==
  /\ hydrated
  /\ page = "part_003"
  /\ truthy(rootCidr)
  /\ \E s \in Range(directChildren(activeScope, subnets)) \cup Range(scopedSubnets) :
       /\ fn' = "deleteSubnet"
       /\ args' = [id |-> s.id, cidr |-> s.cidr, activeCidr |-> activeScope]
       /\ \E deleted \in {deleteSubnet(subnets, breadcrumbs, s.id)} :
            /\ subnets' = deleted.subnets
            /\ breadcrumbs' = deleted.breadcrumbs
  /\ ret' = Null
  /\ UNCHANGED <<rootCidr, page, hydrated, cidrInput, cidrError, activeCidr,
                 selectedChildPrefix, selectedBlock>>
  /\ persist

\* onClear of the toolbar
OnClear ==
  /\ hydrated
  /\ page = "part_003"
  /\ fn' = "onClear"
  /\ args' = Null
  /\ ret' = Null
  /\ subnets' = <<>>
  /\ breadcrumbs' = IF truthy(rootCidr) THEN <<rootCidr>> ELSE <<>>
  /\ UNCHANGED <<rootCidr, page, hydrated, cidrInput, cidrError, activeCidr,
                 selectedChildPrefix, selectedBlock>>
  /\ persist

SessionNext ==
  \/ OnChange
  \/ CidrInputSubmit
  \/ ChangeRoot
  \/ AddSubnet
  \/ DrillDown
  \/ NavigateTo
  \/ GoBack
  \/ UpdateSubnet
  \/ DeleteSubnet
  \/ OnClear

SpecSession == SessionInit /\ [][SessionNext]_vars

\* the block of inner lies within the block of outer (texts that are no CIDR have no block)
contains(outer, inner) ==
  LET o == infoOf(outer)
      i == infoOf(inner)
  IN  /\ o # Null
      /\ i # Null
      /\ NLe(o.networkInt, i.networkInt)
      /\ NLe(i.broadcastInt, o.broadcastInt)

\* the blocks of a and b share an address
overlaps(a, b) ==
  LET ai == infoOf(a)
      bi == infoOf(b)
  IN  /\ ai # Null
      /\ bi # Null
      /\ NLe(ai.networkInt, bi.broadcastInt)
      /\ NLe(bi.networkInt, ai.broadcastInt)

sameBlock(a, b) == contains(a, b) /\ contains(b, a)

\* segs are ascending, non-overlapping, contiguous and cover exactly [first, last]
tiles(segs, first, last) ==
  /\ Len(segs) >= 1
  /\ segs[1].start = first
  /\ \A i \in 1..Len(segs) : NLe(segs[i].start, segs[i].end)
  /\ \A i \in 1..(Len(segs) - 1) : segs[i + 1].start = NAdd(segs[i].end, NInt(1))
  /\ segs[Len(segs)].end = last

\* the segments of the last buildSegments call with absolute start and end
calledSegments ==
  IF fn = "buildSegments" THEN ret
  ELSE LET base == infoOf(args.rootCidr).networkInt
       IN  [i \in 1..Len(ret) |->
             [start |-> NAdd(base, ret[i].start),
              end |-> NSub(NAdd(NAdd(base, ret[i].start), ret[i].size), NInt(1))]]

segmentsTileScope ==
  tiles(calledSegments, infoOf(args.rootCidr).networkInt, infoOf(args.rootCidr).broadcastInt)

\* C1 as claimed: when any two entries are disjoint or nested, buildSegments returns
\* ascending, non-overlapping, contiguous segments whose union is the scope's range.
C1_Original ==
  (/\ fn \in {"buildSegments", "AreaMap.buildSegments"}
   /\ \A i, j \in 1..Len(args.subnets) :
        i # j => \/ ~overlaps(args.subnets[i].cidr, args.subnets[j].cidr)
                 \/ contains(args.subnets[i].cidr, args.subnets[j].cidr)
                 \/ contains(args.subnets[j].cidr, args.subnets[i].cidr))
  => segmentsTileScope

\* C1 (amended): when no two entries overlap (nesting not allowed) and, for
\* SubnetCanvas's buildSegments, every entry with a valid CIDR lies within the scope,
\* buildSegments returns ascending, non-overlapping, contiguous segments whose union
\* is exactly [scope.network, scope.broadcast]. AreaMap's buildSegments drops the
\* entries outside the scope itself; both drop entries whose text is no CIDR.
C1_SegmentsTileScope ==
  (/\ fn \in {"buildSegments", "AreaMap.buildSegments"}
   /\ \A i, j \in 1..Len(args.subnets) :
        i # j => ~overlaps(args.subnets[i].cidr, args.subnets[j].cidr)
   /\ fn = "buildSegments" =>
        \A i \in 1..Len(args.subnets) :
          infoOf(args.subnets[i].cidr) # Null =>
            contains(args.rootCidr, args.subnets[i].cidr))
  => segmentsTileScope

\* entries given out of order with a gap between them: allocated, free, allocated
C1_Witness ==
  /\ fn = "buildSegments"
  /\ args.rootCidr = Cidr(192, 168, 0, 0, 24)
  /\ Len(args.subnets) = 2
  /\ args.subnets[1].cidr = Cidr(192, 168, 0, 128, 25)
  /\ args.subnets[2].cidr = Cidr(192, 168, 0, 0, 26)
  /\ Len(ret) = 3
  /\ ret[1].type = "allocated" /\ ret[1].cidr = Cidr(192, 168, 0, 0, 26)
  /\ ret[2].type = "free"
  /\ ret[2].start = ip(192, 168, 0, 64) /\ ret[2].end = ip(192, 168, 0, 127)
  /\ ret[3].type = "allocated" /\ ret[3].cidr = Cidr(192, 168, 0, 128, 25)

\* the segments of the last buildSegments call as [kind, start, end, entry], with
\* absolute addresses
walkedSegments ==
  [i \in 1..Len(ret) |->
     [kind |-> IF fn = "buildSegments" THEN ret[i].type
               ELSE IF ret[i].subnet = Null THEN "free" ELSE "allocated",
      start |-> calledSegments[i].start,
      end |-> calledSegments[i].end,
      entry |-> IF "subnet" \in DOMAIN ret[i] THEN ret[i].subnet ELSE Null]]

\* the walk over the entries A from entry i on: Free[cursor, network - 1] only if
\* network > cursor, Allocated(entry), cursor := broadcast + 1; at the end
\* Free[cursor, last] only if cursor <= last
RECURSIVE walk(_, _, _, _)
walk(A, i, cursor, last) ==
  IF i > Len(A)
    THEN IF NLe(cursor, last)
           THEN <<[kind |-> "free", start |-> cursor, end |-> last, entry |-> Null]>>
           ELSE <<>>
    ELSE LET e == infoOf(A[i].cidr)
         IN  (IF NGt(e.networkInt, cursor)
                THEN <<[kind |-> "free", start |-> cursor,
                        end |-> NSub(e.networkInt, NInt(1)), entry |-> Null]>>
                ELSE <<>>)
             \o <<[kind |-> "allocated", start |-> e.networkInt, end |-> e.broadcastInt,
                   entry |-> A[i]]>>
             \o walk(A, i + 1, NAdd(e.broadcastInt, NInt(1)), last)

\* the segments are the walk over the entries Q in some ascending order
isWalkOf(Q) ==
  LET isAllocated(g) == g.kind = "allocated"
      allocated == SelectSeq(walkedSegments, isAllocated)
      A == [i \in 1..Len(allocated) |-> allocated[i].entry]
      scope == infoOf(args.rootCidr)
  IN  /\ Len(A) = Len(Q)
      /\ Range(A) = Range(Q)
      /\ \A i \in 1..(Len(A) - 1) :
           NLe(infoOf(A[i].cidr).networkInt, infoOf(A[i + 1].cidr).networkInt)
      /\ walkedSegments = walk(A, 1, scope.networkInt, scope.broadcastInt)
      /\ Q = <<>> =>
           walkedSegments = <<[kind |-> "free", start |-> scope.networkInt,
                               end |-> scope.broadcastInt, entry |-> Null]>>

orderings(list) ==
  LET n == Len(list)
  IN  { [i \in 1..n |-> list[p[i]]] :
          p \in { q \in [1..n -> 1..n] : \A i, j \in 1..n : i # j => q[i] # q[j] } }

\* the segments of the last call's function for the scope and the entries in list
segmentsOf(scope, list) ==
  IF fn = "buildSegments" THEN buildSegments(scope, list)
  ELSE buildSegmentsAreaMap(scope, list)

\* every entry of list has a block, and two entries are disjoint or nested
wellFormed(list) ==
  /\ \A i \in 1..Len(list) : infoOf(list[i].cidr) # Null
  /\ \A i, j \in 1..Len(list) :
       i # j => \/ ~overlaps(list[i].cidr, list[j].cidr)
                \/ contains(list[i].cidr, list[j].cidr)
                \/ contains(list[j].cidr, list[i].cidr)

\* no two entries of list start at the same address
startsDiffer(list) ==
  \A i, j \in 1..Len(list) :
    i # j => infoOf(list[i].cidr).networkInt # infoOf(list[j].cidr).networkInt

\* C29 as claimed: for every scope and every well-formed set (entries pairwise
\* disjoint or nested), buildSegments returns the same sequence of segments for any
\* two orderings of the same entries.
C29_Original ==
  (fn \in {"buildSegments", "AreaMap.buildSegments"} /\ wellFormed(args.subnets)) =>
    \A q \in orderings(args.subnets) : segmentsOf(args.rootCidr, q) = ret

\* C29: for every scope and every well-formed set in which no two entries start at
\* the same address (pairwise disjoint entries are such a set), buildSegments of
\* SubnetCanvas and of AreaMap return the same sequence of segments for any two
\* orderings of the same entries.
C29_OrderIndependent ==
  (/\ fn \in {"buildSegments", "AreaMap.buildSegments"}
   /\ wellFormed(args.subnets)
   /\ startsDiffer(args.subnets))
  => \A q \in orderings(args.subnets) : segmentsOf(args.rootCidr, q) = ret

\* three entries given in descending order of address, two of them nested, come out
\* ascending
C29_Witness ==
  /\ fn = "buildSegments"
  /\ args.rootCidr = Cidr(192, 168, 0, 0, 24)
  /\ Len(args.subnets) = 3
  /\ args.subnets[1].cidr = Cidr(192, 168, 0, 192, 27)
  /\ args.subnets[2].cidr = Cidr(192, 168, 0, 128, 25)
  /\ args.subnets[3].cidr = Cidr(192, 168, 0, 0, 26)
  /\ wellFormed(args.subnets)
  /\ startsDiffer(args.subnets)
  /\ Len(ret) = 5
  /\ ret[1].cidr = Cidr(192, 168, 0, 0, 26)
  /\ ret[3].cidr = Cidr(192, 168, 0, 128, 25)
  /\ ret[4].cidr = Cidr(192, 168, 0, 192, 27)

\* entry after differs from entry before in nothing but name, colour label and note
sameButNameLabelNote(before, after) ==
  /\ DOMAIN after \subseteq DOMAIN before \cup {"notes"}
  /\ \A f \in DOMAIN before \ {"name", "colorLabelId", "notes"} :
       f \in DOMAIN after /\ after[f] = before[f]

\* C21: saving an edit of an existing entry changes only that entry's name, colour
\* label and note: its id, cidr and parentCidr are unchanged, every other entry is
\* unchanged, and the number and order of the entries are unchanged; the saved entry
\* carries the name and label that were saved.
C21_SaveEditFrame ==
  (/\ fn \in {"updateSubnet", "handleSaveSubnet"}
   /\ ~args.isNewSubnet
   /\ args.patch # Null)
  => /\ Len(ret.subnets) = Len(args.subnets)
     /\ \A i \in 1..Len(args.subnets) :
          IF args.subnets[i].id = args.id
            THEN /\ sameButNameLabelNote(args.subnets[i], ret.subnets[i])
                 /\ ret.subnets[i].id = args.id
                 /\ ret.subnets[i].cidr = args.subnets[i].cidr
                 /\ ret.subnets[i].parentCidr = args.subnets[i].parentCidr
                 /\ ret.subnets[i].name = args.patch.name
                 /\ ret.subnets[i].colorLabelId = args.patch.colorLabelId
            ELSE ret.subnets[i] = args.subnets[i]

\* the second of three entries was renamed and relabelled
C21_Witness ==
  /\ fn = "updateSubnet"
  /\ Len(args.subnets) = 3
  /\ args.id = args.subnets[2].id
  /\ ret.subnets[2].name = "dmz"
  /\ ret.subnets[2].colorLabelId = Label("priv")
  /\ args.subnets[2].name # "dmz"
  /\ ret.subnets[1] = args.subnets[1]
  /\ ret.subnets[3] = args.subnets[3]

\* C2: deleting the entry E with the given id leaves exactly the entries that are
\* neither E nor have a block within E's block, each unchanged and in its old
\* order: E and everything nested in it (at any depth) is gone, siblings, ancestors
\* and entries without a block stay. A delete of an id no entry has changes nothing.
C2_CascadeDelete ==
  fn \in {"deleteSubnet", "handleDeleteSubnet"} =>
    LET E == findById(args.subnets, args.id)
        stays(e) == ~(e.id = args.id \/ contains(E.cidr, e.cidr))
    IN  IF E = Null THEN ret.subnets = args.subnets
        ELSE ret.subnets = SelectSeq(args.subnets, stays)

\* deleting the /25 below the /24 entry: the /27 two levels down goes, the /24 stays
C2_Witness ==
  /\ fn = "deleteSubnet"
  /\ Len(args.subnets) = 3
  /\ args.subnets[1].cidr = Cidr(192, 168, 0, 0, 24)
  /\ args.subnets[2].cidr = Cidr(192, 168, 0, 0, 25)
  /\ args.subnets[3].cidr = Cidr(192, 168, 0, 0, 27)
  /\ args.id = args.subnets[2].id
  /\ ret.subnets = <<args.subnets[1]>>

\* inner's block lies within outer's and is not outer's block
strictlyInside(outer, inner) == contains(outer, inner) /\ ~sameBlock(outer, inner)

calledGap ==
  IF fn = "firstAlignedCidr"
    THEN [gapStart |-> args.gapStart, gapEnd |-> args.gapEnd, prefix |-> args.prefix]
    ELSE LET base == GapRootInfo[args.rootCidr].networkInt
         IN  [gapStart |-> NAdd(base, args.gapStart),
              gapEnd |-> NSub(NAdd(NAdd(base, args.gapStart), args.gapSize), NInt(1)),
              prefix |-> args.prefix]

\* C4: for gapStart <= gapEnd and a prefix in 0..32, with m the least multiple of
\* 2^(32-prefix) that is >= gapStart, firstAlignedCidr (both versions) returns the
\* block m/prefix when m + 2^(32-prefix) - 1 <= gapEnd and none otherwise; a
\* returned block is aligned, lies inside [gapStart, gapEnd], and starts less than
\* one block size above gapStart, so no aligned block between gapStart and it exists.
C4_FirstAlignedIsLeast ==
  fn \in {"firstAlignedCidr", "AreaMap.firstAlignedCidr"} =>
    LET g == calledGap
        k == 32 - g.prefix
        blockSize == NPow2(k)
        \* round up: add blockSize - 1, then clear the low k bits
        up == NAdd(g.gapStart, NSub(blockSize, NInt(1)))
        m == NSub(up, NModPow2(up, k))
        fits == NLe(NSub(NAdd(m, blockSize), NInt(1)), g.gapEnd)
    IN  /\ (ret = Null) <=> ~fits
        /\ ret # Null =>
             LET info == getSubnetInfo(ret)
             IN  /\ info # Null
                 /\ info.cidr = ret
                 /\ info.prefix = g.prefix
                 /\ info.networkInt = m
                 /\ NModPow2(info.networkInt, k) = NInt(0)
                 /\ NLe(g.gapStart, info.networkInt)
                 /\ NLt(NSub(info.networkInt, g.gapStart), blockSize)
                 /\ NLe(info.broadcastInt, g.gapEnd)

\* a gap starting off the /27 boundary: the block returned starts above gapStart
C4_Witness ==
  /\ fn \in {"firstAlignedCidr", "AreaMap.firstAlignedCidr"}
  /\ calledGap = [gapStart |-> ip(192, 168, 0, 65), gapEnd |-> ip(192, 168, 0, 127),
                  prefix |-> 27]
  /\ ret = Cidr(192, 168, 0, 96, 27)

\* the last call was firstAlignedCidr on the gap 192.168.0.64 .. 192.168.0.255
calledExampleGap ==
  /\ fn = "firstAlignedCidr"
  /\ args.gapStart = ip(192, 168, 0, 64)
  /\ args.gapEnd = ip(192, 168, 0, 255)

\* C5 as claimed: for the gap 192.168.0.64 .. 192.168.0.255, firstAlignedCidr returns
\* 192.168.0.64/27 for prefix 27 and none for prefix 25.
C5_Original ==
  calledExampleGap =>
    /\ args.prefix = 27 => ret = Cidr(192, 168, 0, 64, 27)
    /\ args.prefix = 25 => ret = Null

\* C5 (amended): for the gap 192.168.0.64 .. 192.168.0.255, firstAlignedCidr returns
\* 192.168.0.64/27 for prefix 27, 192.168.0.128/25 for prefix 25 (the upper /25 of
\* the /24 lies inside the gap) and none for prefix 24.
C5_GapExample ==
  calledExampleGap =>
    /\ args.prefix = 27 => ret = Cidr(192, 168, 0, 64, 27)
    /\ args.prefix = 25 => ret = Cidr(192, 168, 0, 128, 25)
    /\ args.prefix = 24 => ret = Null

C5_Witness ==
  /\ calledExampleGap
  /\ args.prefix = 25
  /\ ret = Cidr(192, 168, 0, 128, 25)

\* the prefixes above min and up to top whose block size is at most gapSize
fitting(gapSize, min, top) == { p \in (min + 1)..top : NLe(NPow2(32 - p), gapSize) }

\* seq lists, ascending, the cap smallest members of set (all of them when fewer)
isFirstOf(seq, set, cap) ==
  /\ \A i \in 1..(Len(seq) - 1) : seq[i] < seq[i + 1]
  /\ Range(seq) \subseteq set
  /\ \A p \in set \ Range(seq) : \A q \in Range(seq) : q < p
  /\ Len(seq) = IF Cardinality(set) < cap THEN Cardinality(set) ELSE cap

\* C6 as claimed: suggestedPrefixes returns, ascending, the prefixes p with
\* minPrefix < p <= 32 and 2^(32-p) <= gapSize, omitting only what the cap of 8 cuts.
C6_Original ==
  fn = "suggestedPrefixes" =>
    isFirstOf(ret, fitting(args.gapSize, args.parentPrefix, 32), 8)

\* C6 (amended): suggestedPrefixes(gapSize, minPrefix) returns, in strictly ascending
\* order, the first 8 of the prefixes p with minPrefix < p <= 30 and
\* 2^(32-p) <= gapSize; suggestSizes(gapSize) returns the first 6 of the prefixes p
\* with 16 <= p <= 30 and 2^(32-p) <= gapSize. /31 and /32 are never suggested.
C6_SuggestedUpTo30 ==
  /\ fn = "suggestedPrefixes" =>
       isFirstOf(ret, fitting(args.gapSize, args.parentPrefix, 30), 8)
  /\ fn = "suggestSizes" =>
       isFirstOf(ret, fitting(args.gapSize, 15, 30), 6)

\* a gap of 64 addresses in a /24 scope: /26 .. /30 are suggested, /31 and /32 are not
C6_Witness ==
  /\ fn = "suggestedPrefixes"
  /\ args = [gapSize |-> NInt(64), parentPrefix |-> 24]
  /\ ret = <<26, 27, 28, 29, 30>>


\* ------------------------------------------------------------------------
\* The address codec
\* ------------------------------------------------------------------------

\* a decimal octet: one to three digits spelling a number in 0..255
isOctet(tok) ==
  /\ Len(tok) \in 1..3
  /\ \A i \in 1..Len(tok) : tok[i] \in 0..9
  /\ parseInt(tok) <= 255

\* exactly four dot-separated decimal octets
isAddressText(text) == Len(text) = 4 /\ \A i \in 1..4 : isOctet(text[i])

\* no octet has a leading zero
isCanonical(text) == \A i \in 1..Len(text) : Len(text[i]) > 1 => text[i][1] # 0

\* the number a.b.c.d stands for: a * 2^24 + b * 2^16 + c * 2^8 + d
addressOf(text) ==
  <<parseInt(text[1]) * 256 + parseInt(text[2]),
    parseInt(text[3]) * 256 + parseInt(text[4])>>

\* C11: for every address a in 0 .. 2^32 - 1, ipToInt(intToIp(a)) = a, also when the
\* top bit of a is set; the text in between is the four octets of a in decimal.
C11_IntRoundTrip ==
  fn = "ipToInt(intToIp)" =>
    /\ ret = args.n
    /\ isAddressText(args.ip)
    /\ addressOf(args.ip) = args.n

\* 255.128.10.1 = 4286581249 >= 2^31 comes back unchanged
C11_Witness ==
  /\ fn = "ipToInt(intToIp)"
  /\ args.n = <<255 * 256 + 128, 10 * 256 + 1>>
  /\ args.ip = <<<<2, 5, 5>>, <<1, 2, 8>>, <<1, 0>>, <<1>>>>
  /\ ret = args.n

\* C12 as claimed: intToIp(ipToInt(a)) = a for every text a of four decimal octets,
\* each in 0..255.
C12_Original ==
  (fn = "intToIp(ipToInt)" /\ isAddressText(args.ip)) => ret = args.ip

\* C12 (amended): for every text a of four decimal octets, each in 0..255 and written
\* without leading zeros, intToIp(ipToInt(a)) = a; an octet written with leading
\* zeros comes back without them.
C12_TextRoundTrip ==
  (fn = "intToIp(ipToInt)" /\ isAddressText(args.ip)) =>
    /\ isCanonical(args.ip) => ret = args.ip
    /\ isCanonical(ret)
    /\ isAddressText(ret)
    /\ addressOf(ret) = addressOf(args.ip)

C12_Witness ==
  /\ fn = "intToIp(ipToInt)"
  /\ args.ip = <<<<1, 2, 8>>, <<0>>, <<2, 5, 5>>, <<1, 0>>>>
  /\ ret = args.ip

isCidrText(text) ==
  /\ isAddressText(text.octets)
  /\ Len(text.prefix) \in 1..2
  /\ \A i \in 1..Len(text.prefix) : text.prefix[i] \in 0..9
  /\ parseInt(text.prefix) <= 32

\* C14: normalizeCidr and getSubnetInfo return a value exactly when the text is
\* <address>/<prefix> with four octets in 0..255 and a prefix in 0..32, whether or
\* not the address is network-aligned; for every other text they return null. The
\* value is a block of the text's prefix that holds the text's address.
C14_AcceptsExactlyCidrTexts ==
  fn \in {"normalizeCidr", "getSubnetInfo"} =>
    /\ ret # Null <=> isCidrText(args.cidr)
    /\ ret # Null =>
         LET block == IF fn = "getSubnetInfo" THEN ret.cidr ELSE ret
             size == NPow2(32 - parseInt(args.cidr.prefix))
             first == addressOf(block.octets)
             a == addressOf(args.cidr.octets)
         IN  /\ isCidrText(block)
             /\ parseInt(block.prefix) = parseInt(args.cidr.prefix)
             /\ NLe(first, a)
             /\ NLt(a, NAdd(first, size))

\* getSubnetInfo("192.168.0.64/24"): accepted although not aligned
C14_Witness ==
  /\ fn = "getSubnetInfo"
  /\ args.cidr = Cidr(192, 168, 0, 64, 24)
  /\ ret # Null
  /\ ret.cidr = Cidr(192, 168, 0, 0, 24)

\* C17: for every valid CIDR text, aligned or not, networkInt and broadcastInt of
\* getSubnetInfo lie in 0 .. 2^32 - 1, networkInt is a multiple of 2^(32 - prefix),
\* broadcastInt = networkInt + 2^(32 - prefix) - 1, and the text's address lies
\* between them.
C17_NetworkBroadcastUnsigned ==
  (fn = "getSubnetInfo" /\ ret # Null) =>
    LET size == NPow2(32 - ret.prefix)
        a == addressOf(args.cidr.octets)
    IN  /\ NLe(NInt(0), ret.networkInt)
        /\ NLt(ret.networkInt, NPow2(32))
        /\ NLe(NInt(0), ret.broadcastInt)
        /\ NLt(ret.broadcastInt, NPow2(32))
        /\ ret.networkInt = NMulPow2(NDivPow2(ret.networkInt, 32 - ret.prefix), 32 - ret.prefix)
        /\ ret.broadcastInt = NSub(NAdd(ret.networkInt, size), NInt(1))
        /\ NLe(ret.networkInt, a)
        /\ NLe(a, ret.broadcastInt)

\* getSubnetInfo("255.255.255.255/1"): 128.0.0.0 .. 255.255.255.255, top bit set
C17_Witness ==
  /\ fn = "getSubnetInfo"
  /\ args.cidr = Cidr(255, 255, 255, 255, 1)
  /\ ret.networkInt = NPow2(31)
  /\ ret.broadcastInt = NSub(NPow2(32), NInt(1))

\* the first and last address of the block a valid text names, by arithmetic:
\* floor(address / 2^(32 - p)) * 2^(32 - p) and that plus 2^(32 - p) - 1
blockFirst(text) ==
  LET k == 32 - parseInt(text.prefix)
  IN  NMulPow2(NDivPow2(addressOf(text.octets), k), k)

blockLast(text) ==
  NSub(NAdd(blockFirst(text), NPow2(32 - parseInt(text.prefix))), NInt(1))

\* address x lies in the block of text
inBlock(x, text) == NLe(blockFirst(text), x) /\ NLe(x, blockLast(text))

\* C15: for valid blocks outer and inner, cidrContains(outer, inner) is true iff
\* outer.network <= inner.network and inner.broadcast <= outer.broadcast; every
\* block contains itself, and 10.0.0.0/16 contains 10.0.5.0/24.
C15_ContainsIffRangeWithin ==
  (fn = "cidrContains" /\ isCidrText(args.a) /\ isCidrText(args.b)) =>
    /\ ret <=> (/\ NLe(blockFirst(args.a), blockFirst(args.b))
                /\ NLe(blockLast(args.b), blockLast(args.a)))
    /\ args.a = args.b => ret
    /\ (args.a = Cidr(10, 0, 0, 0, 16) /\ args.b = Cidr(10, 0, 5, 0, 24)) => ret

C15_Witness ==
  /\ fn = "cidrContains"
  /\ args.a = Cidr(10, 0, 0, 0, 16)
  /\ args.b = Cidr(10, 0, 5, 0, 24)
  /\ ret = TRUE

\* C16: for valid blocks a and b, cidrsOverlap(a, b) is true iff the closed ranges
\* of a and b share an address (then the first address of one of them lies in the
\* other), false iff one range ends before the other begins, and
\* cidrsOverlap(b, a) gives the same answer.
C16_OverlapIffShareAddress ==
  (fn = "cidrsOverlap" /\ isCidrText(args.a) /\ isCidrText(args.b)) =>
    /\ ret <=> \E x \in {blockFirst(args.a), blockFirst(args.b)} :
                 inBlock(x, args.a) /\ inBlock(x, args.b)
    /\ ~ret <=> (\/ NLt(blockLast(args.a), blockFirst(args.b))
                 \/ NLt(blockLast(args.b), blockFirst(args.a)))
    /\ ret = cidrsOverlap(args.b, args.a)

\* overlaps("10.0.0.0/17", "10.0.200.0/24") is false
C16_Witness ==
  /\ fn = "cidrsOverlap"
  /\ args.a = Cidr(10, 0, 0, 0, 17)
  /\ args.b = Cidr(10, 0, 200, 0, 24)
  /\ ret = FALSE

\* C28: for valid blocks a and b, cidrsOverlap(a, b) holds iff cidrContains(a, b) or
\* cidrContains(b, a) holds: two blocks never overlap partially, an overlap is a
\* containment (or the same block).
C28_OverlapIffContainment ==
  (fn = "cidrsOverlap, cidrContains" /\ isCidrText(args.a) /\ isCidrText(args.b)) =>
    /\ ret.overlap <=> (ret.aContainsB \/ ret.bContainsA)
    /\ (ret.aContainsB /\ ret.bContainsA) <=> blockFirst(args.a) = blockFirst(args.b)
                                                /\ blockLast(args.a) = blockLast(args.b)

\* blocks with the same network address and different length overlap; the longer
\* contains the shorter and not the other way round
C28_Witness ==
  /\ fn = "cidrsOverlap, cidrContains"
  /\ args.a = Cidr(10, 0, 0, 0, 16)
  /\ args.b = Cidr(10, 0, 0, 0, 8)
  /\ ret = [overlap |-> TRUE, aContainsB |-> FALSE, bContainsA |-> TRUE]

\* C7: for a valid parent and parent.prefix < childPrefix <= 32, splitCidr returns
\* exactly 2^(childPrefix - parent.prefix) blocks, each a normalized block of prefix
\* childPrefix; the first starts at the parent's network address, each next one
\* starts right after the previous one's broadcast address (so they ascend strictly,
\* never overlap and leave no gap) and the last ends at the parent's broadcast address.
C7_SplitTilesParent ==
  (/\ fn = "splitCidr"
   /\ getSubnetInfo(args.cidr) # Null
   /\ args.childPrefix > getSubnetInfo(args.cidr).prefix
   /\ args.childPrefix <= 32)
  =>
    LET parent == getSubnetInfo(args.cidr)
        n == Len(ret)
        info == [i \in 1..n |-> getSubnetInfo(ret[i])]
    IN  /\ n = 2^(args.childPrefix - parent.prefix)
        /\ \A i \in 1..n :
             /\ info[i] # Null
             /\ info[i].prefix = args.childPrefix
             /\ info[i].cidr = ret[i]
             /\ NLe(info[i].networkInt, info[i].broadcastInt)
        /\ info[1].networkInt = parent.networkInt
        /\ \A i \in 1..(n - 1) :
             info[i + 1].networkInt = NAdd(info[i].broadcastInt, NInt(1))
        /\ info[n].broadcastInt = parent.broadcastInt

\* children("10.0.0.0/16", 18) -> 10.0.0.0/18, 10.0.64.0/18, 10.0.128.0/18, 10.0.192.0/18
C7_Witness ==
  /\ fn = "splitCidr"
  /\ args = [cidr |-> Cidr(10, 0, 0, 0, 16), childPrefix |-> 18]
  /\ ret = << Cidr(10, 0, 0, 0, 18), Cidr(10, 0, 64, 0, 18),
              Cidr(10, 0, 128, 0, 18), Cidr(10, 0, 192, 0, 18) >>

\* C8: splitCidr returns the empty sequence exactly when the parent text is invalid,
\* childPrefix <= parent.prefix or childPrefix > 32; so for a valid parent the split
\* is non-empty exactly for the prefixes getValidChildPrefixes(parent.prefix) offers.
C8_EmptySplitExactly ==
  fn = "splitCidr" =>
    LET parsed == parseCidr(args.cidr)
    IN  /\ (ret = <<>>) <=>
             \/ parsed = Null
             \/ args.childPrefix <= parsed.prefix
             \/ args.childPrefix > 32
        /\ parsed # Null =>
             ((ret # <<>>) <=>
                args.childPrefix \in Range(getValidChildPrefixes(parsed.prefix)))

\* a split at the parent's own prefix is empty, and so is any split of invalid text
C8_Witness ==
  /\ fn = "splitCidr"
  /\ ret = <<>>
  /\ parseCidr(args.cidr) # Null
  /\ args.childPrefix = parseCidr(args.cidr).prefix
  /\ args.childPrefix = 24

\* C9: for a valid CIDR of prefix n, totalHosts = 2^(32 - n); usableHosts is
\* totalHosts for n in {31, 32} and totalHosts - 2 otherwise; firstHost is the
\* network address for n >= 31 and network + 1 otherwise; lastHost is the broadcast
\* address for n >= 31 and broadcast - 1 otherwise; for n <= 30,
\* network < firstHost <= lastHost < broadcast.
C9_HostRange ==
  (fn = "getSubnetInfo" /\ ret # Null) =>
    LET n == ret.prefix
        first == ipToInt(ret.firstHost)
        last == ipToInt(ret.lastHost)
    IN  /\ n = parseInt(args.cidr.prefix)
        /\ ret.totalHosts = NPow2(32 - n)
        /\ ret.usableHosts = IF n \in {31, 32} THEN ret.totalHosts
                             ELSE NSub(ret.totalHosts, NInt(2))
        /\ first = IF n >= 31 THEN ret.networkInt ELSE NAdd(ret.networkInt, NInt(1))
        /\ last = IF n >= 31 THEN ret.broadcastInt ELSE NSub(ret.broadcastInt, NInt(1))
        /\ ipToInt(ret.networkAddress) = ret.networkInt
        /\ ipToInt(ret.broadcastAddress) = ret.broadcastInt
        /\ n <= 30 => /\ NLt(ret.networkInt, first)
                      /\ NLe(first, last)
                      /\ NLt(last, ret.broadcastInt)

\* computeInfo("10.0.0.0/16"): 10.0.0.0 .. 10.0.255.255, 65534 usable hosts,
\* hosts 10.0.0.1 .. 10.0.255.254
C9_Witness ==
  /\ fn = "getSubnetInfo"
  /\ args.cidr = Cidr(10, 0, 0, 0, 16)
  /\ ret.networkAddress = Cidr(10, 0, 0, 0, 16).octets
  /\ ret.broadcastAddress = Cidr(10, 0, 255, 255, 16).octets
  /\ ret.usableHosts = NInt(65534)
  /\ ret.firstHost = Cidr(10, 0, 0, 1, 16).octets
  /\ ret.lastHost = Cidr(10, 0, 255, 254, 16).octets

\* C10: whenever normalizeCidr accepts a text, the result has the text's prefix, its
\* address is the text's address with the 32 - prefix host bits cleared, and
\* normalizing the result gives the result again.
C10_NormalizeIdempotent ==
  (fn = "normalizeCidr" /\ ret # Null) =>
    LET p == parseInt(args.cidr.prefix)
        a == ipToInt(args.cidr.octets)
        r == ipToInt(ret.octets)
    IN  /\ p \in 0..32
        /\ parseInt(ret.prefix) = p
        /\ NModPow2(r, 32 - p) = NInt(0)
        /\ r = NSub(a, NModPow2(a, 32 - p))
        /\ normalizeCidr(ret) = ret

\* normalizeCidr("10.0.1.5/16") -> "10.0.0.0/16"
C10_Witness ==
  /\ fn = "normalizeCidr"
  /\ args.cidr = Cidr(10, 0, 1, 5, 16)
  /\ ret = Cidr(10, 0, 0, 0, 16)

\* C19: submitting malformed CIDR text as the root block is rejected without changing
\* the session: the submit sets the form's error, and rootCidr, the entries and the
\* navigation state (breadcrumbs, active block, selected prefix, selected block) are the
\* same after the rejected submit as before it.
C19_RejectedSubmitKeepsSession ==
  [][(fn' \in {"CidrInput.submit", "handleCidrSubmit"} /\ ~isCidrText(trim(cidrInput)))
       => /\ cidrError' # Null
          /\ UNCHANGED <<rootCidr, subnets, breadcrumbs, activeCidr, selectedChildPrefix,
                         selectedBlock>>]_vars

\* a rejected submit on a session that has a root, an entry, an active block and a
\* selected prefix
C19_Witness ==
  /\ fn = "handleCidrSubmit"
  /\ ~isCidrText(trim(args.value))
  /\ cidrError # Null
  /\ truthy(rootCidr)
  /\ subnets # <<>>
  /\ activeCidr # Null
  /\ selectedChildPrefix # Null

\* text is a valid CIDR whose address is the first address of its block
isAlignedCidr(text) ==
  /\ DOMAIN text = {"octets", "prefix"}
  /\ isCidrText(text)
  /\ blockFirst(text) = addressOf(text.octets)

\* C20: after import or hydration, the session's rootCidr (when one is set) and the
\* cidr of every entry are valid, network-aligned CIDRs: a block that is malformed or
\* unaligned in the file, the share link or the storage is never stored as is.
C20_Original ==
  fn \in {"hydrate", "handleFileChange"} =>
    /\ truthy(rootCidr) => isAlignedCidr(rootCidr)
    /\ \A i \in 1..Len(subnets) : isAlignedCidr(subnets[i].cidr)

entries == Range(subnets)

C25_ShownSegmentsTileScope ==
  truthy(rootCidr) =>
    LET segs == shownSegments
        children == Range(directChildren(activeScope, subnets))
        inner == { infoOf(e.cidr) : e \in { x \in entries : strictlyInside(activeScope, x.cidr) } }
    IN  /\ tiles(segs, infoOf(activeScope).networkInt, infoOf(activeScope).broadcastInt)
        /\ \A s \in children :
             Cardinality({ k \in 1..Len(segs) :
                             segs[k].type = "allocated" /\ segs[k].subnet = s }) = 1
        /\ \A k \in 1..Len(segs) :
             \/ segs[k].type = "allocated" /\ segs[k].subnet \in children
             \/ /\ segs[k].type = "free"
                /\ \A i \in inner : \/ NLt(i.broadcastInt, segs[k].start)
                                    \/ NGt(i.networkInt, segs[k].end)

\* drilled into the entry 192.168.0.0/29, which holds one entry of its own: the canvas
\* shows the allocated 192.168.0.0/30 and the free rest of the /29
C25_Witness ==
  /\ rootCidr = Cidr(192, 168, 0, 0, 28)
  /\ breadcrumbs = <<rootCidr, Cidr(192, 168, 0, 0, 29)>>
  /\ Len(shownSegments) = 2
  /\ shownSegments[1].type = "allocated"
  /\ shownSegments[1].cidr = Cidr(192, 168, 0, 0, 30)
  /\ shownSegments[2].type = "free"
  /\ shownSegments[2].start = NAdd(infoOf(rootCidr).networkInt, NInt(4))

\* the scopes of the session: the root and the block of every entry
scopes == {rootCidr} \cup { e.cidr : e \in entries }

\* the entries strictly inside scope with no other entry strictly between
nearestInside(scope) ==
  { e \in entries :
      /\ strictlyInside(scope, e.cidr)
      /\ ~\E f \in entries : strictlyInside(scope, f.cidr) /\ strictlyInside(f.cidr, e.cidr) }

====
